---- MODULE Spec2Model ----
(***************************************************************************)
(* Model of the broadcast scheduling engine (src/src/scheduler.py,         *)
(* src/src/title_format.py).                                               *)
(*                                                                         *)
(* Text is a sequence of symbols (a symbol is one word or one separator),  *)
(* a Python dict is a function whose DOMAIN is the set of keys present, an *)
(* Optional value is the empty sequence (None) or a one-element sequence,  *)
(* a date is a day number of the year 2026 (0 = 1 January, a Thursday) and *)
(* an aware datetime is the number of hours since 2026-01-01T00:00Z.       *)
(***************************************************************************)
EXTENDS Integers, Sequences, FiniteSets, TLC

\* ------------------------------------------------------------------ values

None == <<>>
Some(x) == <<x>>
IsNone(o) == o = <<>>
Val(o) == o[1]

EmptyDict == [k \in {} |-> ""]
Has(d, k) == k \in DOMAIN d
Get(d, k, default) == IF k \in DOMAIN d THEN d[k] ELSE default
\* dict.update / {**a, **b}: the right operand wins
Update(a, b) == [k \in (DOMAIN a) \cup (DOMAIN b) |-> IF k \in DOMAIN b THEN b[k] ELSE a[k]]
Restrict(d, keys) == [k \in (DOMAIN d) \cap keys |-> d[k]]

\* Python truthiness of a string-valued (or missing) entry
Truthy(v) == v \notin {"", "None", "False"}

RECURSIVE SeqToSet(_)
SeqToSet(s) == IF s = <<>> THEN {} ELSE {Head(s)} \cup SeqToSet(Tail(s))

RECURSIVE Filter(_, _)
\* [x for x in s if keep[x]] with keep given as the set of positions kept
Filter(s, keepIdx) ==
    IF s = <<>> THEN <<>>
    ELSE LET n == Len(s)
             front == Filter(SubSeq(s, 1, n - 1), keepIdx)
         IN  IF n \in keepIdx THEN Append(front, s[n]) ELSE front

\* ------------------------------------------------------------------ text

Whitespace == {" ", "\t"}

\* str.casefold, symbol by symbol
Casefold(sym) ==
    CASE sym = "Misa" -> "misa"
      [] sym = "MISA" -> "misa"
      [] sym = "Vela" -> "vela"
      [] sym = "Lunes" -> "lunes"
      [] sym = "Martes" -> "martes"
      [] sym = "Miércoles" -> "miércoles"
      [] sym = "Jueves" -> "jueves"
      [] sym = "Viernes" -> "viernes"
      [] sym = "Sábado" -> "sábado"
      [] sym = "Domingo" -> "domingo"
      [] sym = "De" -> "de"
      [] sym = "Evento" -> "evento"
      [] sym = "Rate" -> "rate"
      [] sym = "Limit" -> "limit"
      [] sym = "Exceeded" -> "exceeded"
      [] sym = "Quota" -> "quota"
      [] sym = "Backend" -> "backend"
      [] sym = "Error" -> "error"
      [] sym = "Too" -> "too"
      [] sym = "The" -> "the"
      [] sym = "Forbidden" -> "forbidden"
      [] OTHER -> sym

RECURSIVE LStrip(_)
LStrip(s) == IF s = <<>> THEN <<>>
             ELSE IF Head(s) \in Whitespace THEN LStrip(Tail(s)) ELSE s

RECURSIVE JoinSplit(_)
\* " ".join(s.split())
JoinSplit(s) ==
    LET t == LStrip(s) IN
    IF t = <<>> THEN <<>>
    ELSE IF Tail(t) # <<>> /\ Head(Tail(t)) \in Whitespace
         THEN IF LStrip(Tail(t)) = <<>> THEN <<Head(t)>>
              ELSE <<Head(t), " ">> \o JoinSplit(Tail(t))
         ELSE <<Head(t)>> \o JoinSplit(Tail(t))

\* " ".join(title.split()).casefold()
NormalizeTitle(title) ==
    LET j == JoinSplit(title) IN [i \in 1..Len(j) |-> Casefold(j[i])]

\* Python's `keyword in title`
Contains(keyword, title) ==
    \E i \in 1..(Len(title) - Len(keyword) + 1) :
        SubSeq(title, i, i + Len(keyword) - 1) = keyword

\* ------------------------------------------------------------------ dates

WEEKDAYS_ES == <<"Lunes", "Martes", "Miércoles", "Jueves", "Viernes", "Sábado", "Domingo">>

MONTHS_ES == <<"enero", "febrero", "marzo", "abril", "mayo", "junio", "julio",
               "agosto", "septiembre", "octubre", "noviembre", "diciembre">>

MonthLengths == <<31, 28, 31, 30, 31, 30, 31, 31, 30, 31, 30, 31>>

\* date.weekday(): Monday is 0; 1 January 2026 is a Thursday
Weekday(d) == (d + 3) % 7

RECURSIVE MonthFrom(_, _)
MonthFrom(d, m) == IF d < MonthLengths[m] THEN m ELSE MonthFrom(d - MonthLengths[m], m + 1)
Month(d) == MonthFrom(d, 1)

RECURSIVE DayFrom(_, _)
DayFrom(d, m) == IF d < MonthLengths[m] THEN d + 1 ELSE DayFrom(d - MonthLengths[m], m + 1)
DayOfMonth(d) == DayFrom(d, 1)

format_spanish_date(target_date) ==
    <<ToString(DayOfMonth(target_date)), " ", "de", " ", MONTHS_ES[Month(target_date)]>>

\* the title without the date
build_title_undated(prefix, target_date) == prefix

build_title(prefix, target_date) ==
    prefix \o <<" ", "-", " ", WEEKDAYS_ES[Weekday(target_date) + 1], " ">>
           \o format_spanish_date(target_date)

\* ------------------------------------------------------------------ times

\* A timestamp as the platform or the engine writes it: kind "none" (absent),
\* "iso" (wall clock plus UTC offset in hours, "Z" being offset 0), "naive"
\* (no offset) or "bad" (not ISO 8601).
Stamp(kind, day, hour, off) == [kind |-> kind, day |-> day, hour |-> hour, off |-> off]
NoStamp == Stamp("none", 0, 0, 0)
BadStamp == Stamp("bad", 0, 0, 0)

\* datetime.combine(target_date, scheduled_time, tz) as an instant
Combine(target_date, hour, tz) == target_date * 24 + hour - tz

\* _rfc3339: isoformat() of an aware datetime of zone tz
_rfc3339(instant, tz) ==
    LET local == instant + tz
    IN  Stamp("iso", local \div 24, local % 24, tz)

\* datetime.min.replace(tzinfo=UTC), earlier than every instant of the model
DatetimeMin == -1000000

\* _parse_item_datetime: Optional instant
_parse_item_datetime(value) ==
    IF value.kind = "none" THEN None
    ELSE IF value.kind = "bad" THEN None
    ELSE IF value.kind = "naive" THEN Some(value.day * 24 + value.hour)
    ELSE Some(value.day * 24 + value.hour - value.off)

\* key=lambda item: _parse_item_datetime(...) or datetime.min
TimeKey(value) ==
    LET p == _parse_item_datetime(value) IN IF IsNone(p) THEN DatetimeMin ELSE Val(p)

\* _parse_scheduled_start(item, tz): the instant, whatever zone it is shown in
_parse_scheduled_start(item, tz) ==
    LET v == item.scheduledStartTime IN
    IF v.kind = "none" THEN None
    ELSE IF v.kind = "bad" THEN None
    ELSE IF v.kind = "naive" THEN Some(v.day * 24 + v.hour)
    ELSE Some(v.day * 24 + v.hour - v.off)

\* ------------------------------------------------------------------ records

\* A broadcast resource of liveBroadcasts.list / insert. snippet holds the
\* remaining snippet keys (categoryId, defaultLanguage, defaultAudioLanguage).
Item(id, title, description, sst, aet, thumbnails, contentDetails, status, monetizationDetails, snippet) ==
    [id |-> id, title |-> title, description |-> description,
     scheduledStartTime |-> sst, actualEndTime |-> aet, thumbnails |-> thumbnails,
     contentDetails |-> contentDetails, status |-> status,
     monetizationDetails |-> monetizationDetails, snippet |-> snippet]

\* snippet.get("actualEndTime") is truthy
Aired(item) == item.actualEndTime.kind # "none"

\* the first position of s whose element satisfies Test, 0 when there is none
FirstIndex(s, Test(_)) ==
    IF \E i \in 1..Len(s) : Test(s[i])
    THEN CHOOSE i \in 1..Len(s) : Test(s[i]) /\ \A j \in 1..(i - 1) : ~Test(s[j])
    ELSE 0

\* the title search that passes over aired records
find_unaired_by_title(items, title) ==
    LET normalized_title == NormalizeTitle(title)
        Match(item) == NormalizeTitle(item.title) = normalized_title /\ ~Aired(item)
        i == FirstIndex(items, Match)
    IN  IF i = 0 THEN None ELSE Some(items[i])

find_broadcast_by_title_in_items(items, title) ==
    LET normalized_title == NormalizeTitle(title)
        Match(item) == NormalizeTitle(item.title) = normalized_title
        i == FirstIndex(items, Match)
    IN  IF i = 0 THEN None ELSE Some(items[i])

\* the slot search that does not look at actualEndTime
find_slot_ignoring_aired(items, title, keyword, scheduled_start, tz) ==
    LET by_title == find_broadcast_by_title_in_items(items, title)
        Match(item) ==
            /\ Contains(keyword, item.title)
            /\ ~IsNone(_parse_scheduled_start(item, tz))
            /\ Val(_parse_scheduled_start(item, tz)) = scheduled_start
        i == FirstIndex(items, Match)
    IN  IF ~IsNone(by_title) THEN by_title
        ELSE IF i = 0 THEN None ELSE Some(items[i])

find_scheduled_broadcast_for_slot_in_items(items, title, keyword, scheduled_start, tz) ==
    LET by_title == find_broadcast_by_title_in_items(items, title)
        Match(item) ==
            /\ Contains(keyword, item.title)
            /\ ~Aired(item)
            /\ ~IsNone(_parse_scheduled_start(item, tz))
            /\ Val(_parse_scheduled_start(item, tz)) = scheduled_start
        i == FirstIndex(items, Match)
    IN  IF ~IsNone(by_title) THEN by_title
        ELSE IF i = 0 THEN None ELSE Some(items[i])

\* ------------------------------------------------------------------ templates

_pick_snippet_defaults(snippet) ==
    Restrict(snippet, {"defaultLanguage", "defaultAudioLanguage", "categoryId"})

_pick_status_defaults(status) == Restrict(status, {"selfDeclaredMadeForKids"})

_pick_monetization_defaults(monetization_details) ==
    Restrict(monetization_details, {"enableMonetization", "cuepointSchedule"})

ThumbnailKeys == <<"maxres", "standard", "high", "medium", "default">>

\* the url of the first resolution, in ThumbnailKeys order, that has one
_pick_thumbnail_url(thumbnails) ==
    LET HasUrl(key) == Has(thumbnails, key) /\ Truthy(thumbnails[key])
        i == FirstIndex(ThumbnailKeys, HasUrl)
    IN  IF i = 0 THEN None ELSE Some(thumbnails[ThumbnailKeys[i]])

_build_template_from_item(item, from_emitted) ==
    [content_details |-> item.contentDetails,
     privacy_status |-> Get(item.status, "privacyStatus", "unlisted"),
     status_defaults |-> _pick_status_defaults(item.status),
     bound_stream_id |-> IF Has(item.contentDetails, "boundStreamId")
                         THEN Some(item.contentDetails["boundStreamId"]) ELSE None,
     description |-> item.description,
     snippet_defaults |-> _pick_snippet_defaults(item.snippet),
     monetization_details |-> _pick_monetization_defaults(item.monetizationDetails),
     thumbnail_url |-> _pick_thumbnail_url(item.thumbnails),
     from_emitted |-> from_emitted,
     source_id |-> item.id,
     source_title |-> item.title]

\* max(s, key=Key): the first element whose key no other element exceeds
MaxByKey(s, Key(_)) ==
    LET i == CHOOSE i \in 1..Len(s) :
                 /\ \A j \in 1..Len(s) : Key(s[j]) <= Key(s[i])
                 /\ \A j \in 1..(i - 1) : Key(s[j]) < Key(s[i])
    IN  s[i]

\* the end time read off the clock, whatever its offset
EndKeyByClock(item) == item.actualEndTime.day * 24 + item.actualEndTime.hour

EndKey(item) == TimeKey(item.actualEndTime)
StartKey(item) == TimeKey(item.scheduledStartTime)

\* metadata reduced to the description
HasDescription(item) == Truthy(item.description)

HasMetadata(item) ==
    \/ Truthy(item.description)
    \/ Truthy(Get(item.contentDetails, "boundStreamId", ""))
    \/ DOMAIN item.thumbnails # {}

find_template_by_keyword_in_items(items, keyword) ==
    LET candidates == Filter(items, {i \in 1..Len(items) : Contains(keyword, items[i].title)})
        emitted == Filter(candidates, {i \in 1..Len(candidates) : Aired(candidates[i])})
        scheduled_with_metadata ==
            Filter(candidates, {i \in 1..Len(candidates) : HasMetadata(candidates[i])})
    IN  IF candidates = <<>> THEN None
        ELSE IF emitted # <<>>
             THEN Some(_build_template_from_item(MaxByKey(emitted, EndKey), TRUE))
        ELSE IF scheduled_with_metadata # <<>>
             THEN Some(_build_template_from_item(MaxByKey(scheduled_with_metadata, StartKey), FALSE))
        ELSE Some(_build_template_from_item(MaxByKey(candidates, StartKey), FALSE))

_find_latest_emitted_stream_id(items) ==
    LET emitted_with_stream ==
            Filter(items, {i \in 1..Len(items) :
                              /\ Aired(items[i])
                              /\ Truthy(Get(items[i].contentDetails, "boundStreamId", ""))})
    IN  IF emitted_with_stream = <<>> THEN None
        ELSE Some(MaxByKey(emitted_with_stream, EndKey).contentDetails["boundStreamId"])

\* ------------------------------------------------------------------ errors

\* HttpError: resp.status and the content. json = FALSE is a content that is
\* not JSON; has_errors is a non-empty error.errors list whose first entry
\* carries reason / emessage; message is error.message. A missing string is
\* "None", a missing message the empty text. raises names the exception the
\* content makes _parse_error_reason raise, "None" when it reads it.
HttpError(status, json, has_errors, reason, emessage, message) ==
    [status |-> status, json |-> json, has_errors |-> has_errors,
     reason |-> reason, emessage |-> emessage, message |-> message, raises |-> "None"]

\* an HttpError whose content is not UTF-8: content.decode("utf-8") raises
\* UnicodeDecodeError, which the except clause does not name
HttpErrorNotUtf8(status) ==
    [HttpError(status, FALSE, FALSE, "None", <<>>, <<>>) EXCEPT !.raises = "UnicodeDecodeError"]

\* an HttpError whose content is JSON but no object: payload.get raises
\* AttributeError after the try block
HttpErrorNotObject(status) ==
    [HttpError(status, TRUE, FALSE, "None", <<>>, <<>>) EXCEPT !.raises = "AttributeError"]

\* _parse_error_reason returns for this error
Classifies(error) == error.raises = "None"

\* _parse_error_reason: <<reason, message>>, or <<"raises", exception>>
_parse_error_reason(error) ==
    IF ~Classifies(error) THEN <<"raises", error.raises>>
    ELSE IF ~error.json THEN <<"None", <<>>>>
    ELSE IF error.has_errors
         THEN <<error.reason, IF error.emessage # <<>> THEN error.emessage ELSE error.message>>
    ELSE <<"None", error.message>>

\* str.lower, symbol by symbol: on the symbols of the texts the program lowers
\* it gives what str.casefold gives
Lower(text) == [i \in 1..Len(text) |-> Casefold(text[i])]

\* the quota reasons alone, without those of the rate limit
_is_quota_only_error(error) ==
    LET reason == _parse_error_reason(error)[1]
        message == _parse_error_reason(error)[2]
    IN  IF ~Classifies(error) THEN _parse_error_reason(error)
        ELSE IF reason \in {"quotaExceeded", "dailyLimitExceeded", "liveStreamingNotEnabled"}
        THEN <<TRUE, IF message # <<>> THEN message ELSE <<reason>>>>
        ELSE <<FALSE, message>>

\* <<is_limit, detail>>, or the exception of _parse_error_reason
_is_quota_or_limit_error(error) ==
    LET reason == _parse_error_reason(error)[1]
        message == _parse_error_reason(error)[2]
    IN  IF ~Classifies(error) THEN _parse_error_reason(error)
        ELSE IF reason \in {"quotaExceeded", "dailyLimitExceeded", "rateLimitExceeded",
                       "userRateLimitExceeded", "userRequestsExceedRateLimit",
                       "liveStreamingNotEnabled"}
        THEN <<TRUE, IF message # <<>> THEN message ELSE <<reason>>>>
        ELSE IF /\ error.status \in {403, 429}
                /\ message # <<>>
                /\ \E word \in {"quota", "limit", "exceeded"} : Contains(<<word>>, Lower(message))
             THEN <<TRUE, message>>
        ELSE <<FALSE, message>>

\* <<is_rate_limit, detail>>, or the exception of _parse_error_reason
_is_rate_limit_http_error(error) ==
    LET reason == _parse_error_reason(error)[1]
        message == _parse_error_reason(error)[2]
    IN  IF ~Classifies(error) THEN _parse_error_reason(error)
        ELSE IF error.status = 403 /\ reason \in {"userRequestsExceedRateLimit", "rateLimitExceeded"}
        THEN <<TRUE, <<reason>>>>
        ELSE <<FALSE, message>>

\* ------------------------------------------------------------------ insert body

DEFAULT_MISA_DESCRIPTION == "Si quieres hacer un donativo a la Parroquia"
DEFAULT_VELA_DESCRIPTION == "También puedes oírlas después en Spotify"
DEFAULT_CATEGORY_ID == "19"
DEFAULT_STATUS_DEFAULTS == [selfDeclaredMadeForKids |-> "False"]
DEFAULT_MONETIZATION_DETAILS == [enableMonetization |-> "True", cuepointSchedule |-> "enabled=False"]
FORCED_CONTENT_DETAILS_DEFAULTS == [enableLiveChat |-> "False"]

ContentDetailsAllowed ==
    {"enableAutoStart", "enableAutoStop", "enableDvr", "enableLowLatency", "recordFromStart",
     "latencyPreference", "monitorStream", "projection", "enableClosedCaptions", "enableEmbed",
     "startWithSlate", "enableContentEncryption", "closedCaptionsType", "stereoLayout",
     "enableLiveChat", "enableLiveChatReplay", "enableLiveChatSummary",
     "enableLiveChatModeration"}

\* template is Optional
_build_content_details(template) ==
    Update(IF IsNone(template) THEN EmptyDict
           ELSE Restrict(Val(template).content_details, ContentDetailsAllowed),
           FORCED_CONTENT_DETAILS_DEFAULTS)

\* the defaults updated with the template, nothing forced afterwards
_merge_monetization_details(template) ==
    Update(DEFAULT_MONETIZATION_DETAILS,
           IF IsNone(template) THEN EmptyDict ELSE Val(template).monetization_details)

_build_monetization_details(template) ==
    Update(Update(DEFAULT_MONETIZATION_DETAILS,
                  IF IsNone(template) THEN EmptyDict ELSE Val(template).monetization_details),
           [enableMonetization |-> "True", cuepointSchedule |-> "enabled=False"])

\* the body _create_broadcast hands to liveBroadcasts.insert
InsertBody(title, description, scheduled_start, template, default_privacy_status, tz) ==
    [title |-> title,
     description |-> description,
     scheduledStartTime |-> _rfc3339(scheduled_start, tz),
     snippet |-> Update([categoryId |-> DEFAULT_CATEGORY_ID],
                        IF IsNone(template) THEN EmptyDict ELSE Val(template).snippet_defaults),
     status |-> Update(Update([privacyStatus |-> IF IsNone(template) THEN default_privacy_status
                                                 ELSE Val(template).privacy_status],
                              DEFAULT_STATUS_DEFAULTS),
                       IF IsNone(template) THEN EmptyDict ELSE Val(template).status_defaults),
     contentDetails |-> _build_content_details(template),
     monetizationDetails |-> _build_monetization_details(template)]

\* ------------------------------------------------------------------ planning

\* the hard cap of the look-ahead window
MaxDaysCap == 11

BroadcastDefinition(prefix, scheduled_time, keyword, default_description) ==
    [prefix |-> prefix, scheduled_time |-> scheduled_time, keyword |-> keyword,
     default_description |-> default_description]

Definitions(cfg) ==
    <<BroadcastDefinition(cfg.keyword_misa_10, 10, cfg.keyword_misa_10, DEFAULT_MISA_DESCRIPTION),
      BroadcastDefinition(cfg.keyword_misa_12, 12, cfg.keyword_misa_12, DEFAULT_MISA_DESCRIPTION),
      BroadcastDefinition(cfg.keyword_misa_20, 20, cfg.keyword_misa_20, DEFAULT_MISA_DESCRIPTION),
      BroadcastDefinition(cfg.keyword_vela_21, 21, cfg.keyword_vela_21, DEFAULT_VELA_DESCRIPTION)>>

Min(a, b) == IF a <= b THEN a ELSE b

\* the start of the window without the offset
StartDateToday(day, cfg) == day

StartDate(day, cfg) == day + cfg.start_offset_days
\* the end of the window without the cap
EndDateUncapped(day, cfg) == day + cfg.max_days_ahead

EndDate(day, cfg) == day + Min(cfg.max_days_ahead, MaxDaysCap)
TotalDays(day, cfg) == EndDate(day, cfg) - StartDate(day, cfg) + 1

\* no definition is skipped on any day
SkippedNever(definition, target_date, cfg) == FALSE

\* the weekly definition is skipped on every day but Thursday
SkippedWeekly(definition, target_date, cfg) ==
    definition.keyword = cfg.keyword_vela_21 /\ Weekday(target_date) # 3

\* templates[keyword] for every keyword of the definitions
ResolveTemplates(items, cfg) ==
    [kw \in {Definitions(cfg)[i].keyword : i \in 1..Len(Definitions(cfg))} |->
        find_template_by_keyword_in_items(items, kw)]

\* first template, in definition order, that has a bound stream
FirstTemplateStream(tpls, cfg) ==
    LET defs == Definitions(cfg)
        HasStream(definition) ==
            /\ ~IsNone(tpls[definition.keyword])
            /\ ~IsNone(Val(tpls[definition.keyword]).bound_stream_id)
            /\ Truthy(Val(Val(tpls[definition.keyword]).bound_stream_id))
        i == FirstIndex(defs, HasStream)
    IN  IF i = 0 THEN None ELSE Val(tpls[defs[i].keyword]).bound_stream_id

\* the stream of the templates before the stream of the aired broadcasts
SharedStreamIdTemplatesFirst(items, tpls, cfg) ==
    LET first == FirstTemplateStream(tpls, cfg)
    IN  IF ~IsNone(first) THEN first ELSE _find_latest_emitted_stream_id(items)

SharedStreamId(items, tpls, cfg) ==
    LET latest == _find_latest_emitted_stream_id(items)
    IN  IF ~IsNone(latest) /\ Truthy(Val(latest)) THEN latest ELSE FirstTemplateStream(tpls, cfg)

\* ------------------------------------------------------------------ client

\* the errors a call of the client raises in a run: the one of
\* _AlwaysRateLimitLiveBroadcasts.insert, a quota error, the one of
\* _Retry503Request
ErrRateLimit ==
    HttpError(403, TRUE, TRUE, "userRequestsExceedRateLimit", <<"Quota", " ", "exceeded">>,
              <<"Quota", " ", "exceeded">>)
ErrQuota ==
    HttpError(403, TRUE, TRUE, "quotaExceeded", <<"Quota", " ", "exceeded">>, <<>>)
ErrBackend ==
    HttpError(503, TRUE, TRUE, "SERVICE_UNAVAILABLE",
              <<"The", " ", "service", " ", "is", " ", "currently", " ", "unavailable.">>,
              <<"The", " ", "service", " ", "is", " ", "currently", " ", "unavailable.">>)
\* the last one is a 400 whose content is the JSON text []
RunErrors == {ErrRateLimit, ErrQuota, ErrBackend, HttpErrorNotObject(400)}

\* what urlopen raises: no HttpError, no payload
DownloadError == HttpError(0, FALSE, FALSE, "None", <<>>, <<>>)

\* created_payload of the client's insert, which it answers with and keeps
\* in _created_by_id: the id and the title of the body, and the three chat
\* flags when force_insert_chat_enabled
StoredItem(id, body, force_insert_chat_enabled) ==
    Item(id, body.title, "", NoStamp, NoStamp, EmptyDict,
         IF force_insert_chat_enabled
         THEN [enableLiveChat |-> "True", enableLiveChatReplay |-> "True",
               enableLiveChatSummary |-> "True"]
         ELSE EmptyDict,
         EmptyDict, EmptyDict, EmptyDict)

IndexOfId(items, id) == LET IsIt(item) == item.id = id IN FirstIndex(items, IsIt)

\* liveBroadcasts.list() answering with the whole catalog whatever the id
ItemsOfCatalog(items, id) == items

\* listed_item: a copy of the kept record, the chat flag turned on in its
\* contentDetails when force_list_chat_enabled
ListedItem(item, force_list_chat_enabled) ==
    IF force_list_chat_enabled
    THEN [item EXCEPT !.contentDetails = Update(@, [enableLiveChat |-> "True"])]
    ELSE item

\* liveBroadcasts.list(id=...): the items of the response, items being the
\* records of _created_by_id
ItemsById(items, id) ==
    IF IndexOfId(items, id) = 0 THEN <<>> ELSE <<items[IndexOfId(items, id)]>>

ReplaceId(items, id, item) == [i \in 1..Len(items) |-> IF items[i].id = id THEN item ELSE items[i]]

\* ------------------------------------------------------------------ state

VARIABLES
    today,            \* datetime.now(tz).date()
    config,           \* Config
    youtube,          \* the client: what it offers and how it is set
    pages,            \* the responses the platform pages its catalog in
    remote,           \* the client's broadcasts: its _items, then the records it kept
    run_no,           \* 1 for the first run of the job, 2 for the next
    pc,               \* position in main / run_scheduler
    broadcasts,       \* the local cache
    templates,        \* keyword -> Optional template
    shared_stream_id, \* Optional stream id
    planned, created_titles, existing_titles, failed,
    offset, def_idx,  \* the two loop counters of run_scheduler
    attempt,          \* the loop counter of _with_rate_limit_retry
    created,          \* Optional: the broadcast of the current slot
    chat_cd,          \* contentDetails merged so far by _ensure_chat_disabled
    events,           \* every remote call, sleep and report, in order
    faults,           \* calls of the client that have raised so far
    next_id,          \* N of the id "created-N" of the next insert
    exit_code,        \* Optional: the status main passed to sys.exit
    page_token,       \* Optional: page_token of _iter_broadcasts
    creator_class     \* the class the name StudioBroadcastCreator of scheduler_studio is bound to

envVars == <<today, config, youtube, pages, page_token, creator_class>>
listVars == <<planned, created_titles, existing_titles, failed>>
vars == <<today, config, youtube, remote, run_no, pc, broadcasts, templates, shared_stream_id,
          planned, created_titles, existing_titles, failed, offset, def_idx, attempt, created,
          chat_cd, events, faults, next_id, exit_code, pages, page_token, creator_class>>

\* ------------------------------------------------------------------ bounds

MaxFaults == 1
MaxRuns == 2

\* ------------------------------------------------------------------ current slot

CurDef == Definitions(config)[def_idx]
TargetDate == StartDate(today, config) + offset
ScheduledStart == Combine(TargetDate, CurDef.scheduled_time, config.tz)
Title == build_title(CurDef.prefix, TargetDate)
\* the template looked up again in the cache as it is now
TemplateOfCurrentCache == find_template_by_keyword_in_items(broadcasts, CurDef.keyword)

Template == Get(templates, CurDef.keyword, None)
\* the template's description, whatever it is, when there is a template
DescriptionOfTemplate ==
    IF ~IsNone(Template) THEN Val(Template).description ELSE CurDef.default_description

Description ==
    IF ~IsNone(Template) /\ Truthy(Val(Template).description)
    THEN Val(Template).description ELSE CurDef.default_description
Slot == <<TargetDate, def_idx>>
Existing ==
    find_scheduled_broadcast_for_slot_in_items(broadcasts, Title, CurDef.keyword,
                                               ScheduledStart, config.tz)

CanFault == faults < MaxFaults

\* _FakeLiveBroadcasts._items: what list() without an id answers with
_items == SubSeq(remote, 1, youtube.n_items)
\* the values of _FakeLiveBroadcasts._created_by_id, in the order of the inserts
_created_by_id == SubSeq(remote, youtube.n_items + 1, Len(remote))
\* liveBroadcasts.list(id=...) of this client
ListById(id) ==
    LET items == ItemsById(_created_by_id, id)
    IN  [k \in 1..Len(items) |-> ListedItem(items[k], youtube.force_list_chat_enabled)]

SummaryOf(p, c, e, f) == [op |-> "summary", planned |-> p, created |-> c, existing |-> e, failed |-> f]
Log(tag) == [op |-> "log", tag |-> tag, run |-> run_no]
Call(op, id, ok) == [op |-> op, id |-> id, ok |-> ok, slot |-> Slot, run |-> run_no]

\* the exception a call of the client raised
Raised(op, error) == [op |-> "raise", call |-> op, error |-> error, slot |-> Slot, run |-> run_no]
\* an exception raised while an HttpError was being classified
Crashed(exception) == [op |-> "crash", exception |-> exception, slot |-> Slot, run |-> run_no]

\* the seconds, in tenths, of min(max_seconds, base_seconds * (2**attempt))
BackoffSecondsUncapped(base_seconds, max_seconds, att) == base_seconds * (2 ^ att)

BackoffSeconds(base_seconds, max_seconds, att) == Min(max_seconds, base_seconds * (2 ^ att))

\* random.uniform(0, 0.5), in tenths of a second: its two extremes
MaxJitter == 5
Jitters == {0, MaxJitter}

\* sleep(wait_seconds) of the retry loop
RetrySleep(att, jitter) ==
    [op |-> "sleep", why |-> "retry", k |-> att,
     seconds |-> BackoffSeconds(config.rate_limit_retry_base_seconds,
                                config.rate_limit_retry_max_seconds, att) + jitter]

\* details of StopCreationLimit: detail or "userRequestsExceedRateLimit"
StopDetailsFixed(error) == <<"userRequestsExceedRateLimit">>

StopDetails(error) ==
    LET detail == _is_rate_limit_http_error(error)[2]
    IN  IF detail # <<>> THEN detail ELSE <<"userRequestsExceedRateLimit">>

\* raise StopCreationLimit(...)
StopCreationLimit(op, error) ==
    [op |-> "StopCreationLimit", call |-> op, details |-> StopDetails(error), slot |-> Slot,
     run |-> run_no]

\* the end of one iteration of the inner loop
NextIteration ==
    /\ pc' = "loop"
    /\ IF def_idx < Len(Definitions(config))
       THEN offset' = offset /\ def_idx' = def_idx + 1
       ELSE offset' = offset + 1 /\ def_idx' = 1
    /\ attempt' = 0
    /\ created' = None
    /\ chat_cd' = EmptyDict

StaySlot == UNCHANGED <<offset, def_idx, attempt, created, chat_cd>>

\* StopCreationLimit recorded as a failure of the slot, whatever the policy
OnStopCreationLimitContinue(ev) ==
    /\ failed' = Append(failed, [title |-> Title, why |-> "rate limit"])
    /\ events' = ev
    /\ NextIteration

\* except StopCreationLimit (ev: the events up to the raise)
OnStopCreationLimit(ev) ==
    IF config.stop_on_create_limit
    THEN /\ events' = ev \o <<Log("STOP"), SummaryOf(planned, created_titles, existing_titles, failed)>>
         /\ pc' = "returned"
         /\ failed' = failed
         /\ StaySlot
    ELSE /\ failed' = Append(failed, [title |-> Title, why |-> "rate limit"])
         /\ events' = ev
         /\ NextIteration

\* an exception no handler of the loop takes leaves run_scheduler
OnException(ev, exception) ==
    /\ events' = Append(ev, Crashed(exception))
    /\ pc' = "raised"
    /\ failed' = failed
    /\ StaySlot

\* except HttpError
OnHttpError(ev, error) ==
    IF ~Classifies(error) THEN OnException(ev, _is_quota_or_limit_error(error)[2])
    ELSE IF _is_quota_or_limit_error(error)[1] /\ config.stop_on_create_limit
    THEN /\ events' = ev \o <<Log("STOP"), SummaryOf(planned, created_titles, existing_titles, failed)>>
         /\ pc' = "returned"
         /\ failed' = failed
         /\ StaySlot
    ELSE /\ failed' = Append(failed,
                [title |-> Title,
                 why |-> IF _parse_error_reason(error)[1] # "None" THEN _parse_error_reason(error)[1]
                         ELSE IF _parse_error_reason(error)[2] # <<>> THEN "error" ELSE ""])
         /\ events' = ev \o <<Log("ERROR"), SummaryOf(planned, created_titles, existing_titles, failed')>>
         /\ pc' = "raised"
         /\ StaySlot

\* what _with_rate_limit_retry does with an HttpError of attempt att
_with_rate_limit_retry(att, retry_limit, error) ==
    IF ~Classifies(error) THEN "crash"
    ELSE IF ~_is_rate_limit_http_error(error)[1] THEN "raise"
    ELSE IF att >= retry_limit THEN "stop"
    ELSE "sleep"

\* ------------------------------------------------------------------ run_scheduler

\* broadcasts = list(_iter_broadcasts(youtube)), the date range, the templates
\* and the shared stream
ListCatalog ==
    /\ pc = "start"
    /\ \/ /\ broadcasts' = _items
          /\ faults' = faults
          /\ IF StartDate(today, config) > EndDate(today, config)
             THEN /\ pc' = "returned"
                  /\ events' = events \o <<Call("list_all", 0, TRUE), Log("SKIP_RANGE")>>
                  /\ UNCHANGED <<templates, shared_stream_id>>
             ELSE /\ pc' = "loop"
                  /\ events' = Append(events, Call("list_all", 0, TRUE))
                  /\ templates' = ResolveTemplates(_items, config)
                  /\ shared_stream_id' = SharedStreamId(_items, templates', config)
       \/ /\ CanFault
          /\ \E error \in RunErrors :
                events' = events \o <<Call("list_all", 0, FALSE), Raised("list_all", error)>>
          /\ faults' = faults + 1
          /\ pc' = "raised"
          /\ UNCHANGED <<broadcasts, templates, shared_stream_id>>
    /\ UNCHANGED <<envVars, remote, run_no, listVars, offset, def_idx, attempt, created,
                   chat_cd, next_id, exit_code>>

\* the head of one iteration: the weekly filter, the dedupe check, the plan
LoopHead ==
    /\ pc = "loop"
    /\ offset < TotalDays(today, config)
    /\ \/ /\ SkippedWeekly(CurDef, TargetDate, config)
          /\ NextIteration
          /\ UNCHANGED <<listVars, events>>
       \/ /\ ~SkippedWeekly(CurDef, TargetDate, config)
          /\ ~IsNone(Existing)
          /\ existing_titles' = Append(existing_titles, Title)
          /\ events' = Append(events, [op |-> "skip", slot |-> Slot, id |-> Val(Existing).id,
                                       run |-> run_no])
          /\ NextIteration
          /\ UNCHANGED <<planned, created_titles, failed>>
       \/ /\ ~SkippedWeekly(CurDef, TargetDate, config)
          /\ IsNone(Existing)
          /\ planned' = Append(planned, Title)
          /\ pc' = "insert"
          /\ UNCHANGED <<created_titles, existing_titles, failed, events>>
          /\ StaySlot
    /\ UNCHANGED <<envVars, remote, run_no, broadcasts, templates, shared_stream_id, faults,
                   next_id, exit_code>>

\* both loops are over: DONE and the summary
Finish ==
    /\ pc = "loop"
    /\ offset >= TotalDays(today, config)
    /\ events' = events \o <<Log("DONE"), SummaryOf(planned, created_titles, existing_titles, failed)>>
    /\ pc' = "returned"
    /\ UNCHANGED <<envVars, remote, run_no, broadcasts, templates, shared_stream_id, listVars,
                   offset, def_idx, attempt, created, chat_cd, faults, next_id, exit_code>>

\* liveBroadcasts.insert: the body sent and the contentDetails of the response
InsertEvent(ok, id) ==
    LET body == InsertBody(Title, Description, ScheduledStart, Template,
                           config.default_privacy_status, config.tz)
    IN  [op |-> "insert", id |-> id, ok |-> ok, slot |-> Slot, run |-> run_no, attempt |-> attempt,
         template |-> Template,
         body |-> body,
         response_cd |-> IF ok THEN StoredItem(id, body, youtube.force_insert_chat_enabled).contentDetails
                         ELSE EmptyDict]

\* one pass of the retry loop around liveBroadcasts.insert
InsertCall ==
    /\ pc = "insert"
    /\ \/ \* range(retry_limit + 1) is empty: None is returned and
          \* _ensure_chat_disabled(None) raises AttributeError
          /\ config.rate_limit_retry_limit < 0
          /\ events' = Append(events, Log("AttributeError"))
          /\ pc' = "raised"
          /\ StaySlot
          /\ UNCHANGED <<remote, failed, faults, next_id>>
       \/ /\ config.rate_limit_retry_limit >= 0
          /\ ~youtube.insert_always_rate_limited
          /\ remote' = Append(remote, StoredItem(next_id, InsertEvent(TRUE, next_id).body,
                                                 youtube.force_insert_chat_enabled))
          /\ created' = Some(remote'[Len(remote')])
          /\ next_id' = next_id + 1
          /\ events' = Append(events, InsertEvent(TRUE, next_id))
          /\ pc' = "verify"
          /\ attempt' = 0
          /\ UNCHANGED <<failed, faults, offset, def_idx, chat_cd>>
       \/ /\ config.rate_limit_retry_limit >= 0
          /\ \E error \in RunErrors :
                /\ IF youtube.insert_always_rate_limited
                   THEN error = ErrRateLimit /\ faults' = faults
                   ELSE CanFault /\ faults' = faults + 1
                /\ LET ev == events \o <<InsertEvent(FALSE, 0), Raised("insert", error)>>
                       what == _with_rate_limit_retry(attempt, config.rate_limit_retry_limit, error)
                   IN  CASE what = "raise" -> OnHttpError(ev, error)
                         [] what = "crash" ->
                              OnException(ev, _is_rate_limit_http_error(error)[2])
                         [] what = "stop" ->
                              OnStopCreationLimit(Append(ev, StopCreationLimit("insert", error)))
                         [] what = "sleep" ->
                              /\ \E jitter \in Jitters :
                                    events' = Append(ev, RetrySleep(attempt, jitter))
                              /\ attempt' = attempt + 1
                              /\ UNCHANGED <<pc, failed, offset, def_idx, created, chat_cd>>
          /\ UNCHANGED <<remote, next_id>>
    /\ UNCHANGED <<envVars, run_no, broadcasts, templates, shared_stream_id, planned,
                   created_titles, existing_titles, exit_code>>

\* the flag of the insert response alone
ChatEnabledAsInserted(cd, default) == default = "True"

ChatEnabled(cd, default) == Get(cd, "enableLiveChat", default) = "True"

\* next(iter(items), {}).get("contentDetails", {})
ListedContentDetails(items) ==
    IF items = <<>> THEN EmptyDict ELSE items[1].contentDetails

\* list(part="id,contentDetails", id=...) and what it answered
ChatRead(id, cd) ==
    [op |-> "list", id |-> id, ok |-> TRUE, slot |-> Slot, run |-> run_no, contentDetails |-> cd]

\* _ensure_chat_disabled up to its first return or to the update
VerifyChat ==
    /\ pc = "verify"
    /\ \/ /\ LET items == ListById(Val(created).id)
                 current_cd == ListedContentDetails(items)
                 enabled == ChatEnabled(current_cd,
                                Get(Val(created).contentDetails, "enableLiveChat", "False"))
             IN  /\ chat_cd' = Update(Val(created).contentDetails, current_cd)
                 /\ IF enabled
                    THEN pc' = "update" /\ created' = created
                    ELSE /\ pc' = "fetch"
                         /\ created' = Some([Val(created) EXCEPT !.contentDetails = chat_cd'])
                 /\ events' = Append(events, ChatRead(Val(created).id, current_cd))
          /\ UNCHANGED <<failed, faults, offset, def_idx, attempt>>
       \/ /\ CanFault
          /\ faults' = faults + 1
          /\ \E error \in RunErrors :
                OnHttpError(events \o <<Call("list", Val(created).id, FALSE), Raised("list", error)>>, error)
    /\ UNCHANGED <<envVars, remote, run_no, broadcasts, templates, shared_stream_id, planned,
                   created_titles, existing_titles, next_id, exit_code>>

\* liveBroadcasts.update with contentDetails = {enableLiveChat: False}: the
\* client merges the body into the record it keeps for the id, and that
\* record is the dict its insert answered with, which created_broadcast
\* still names
UpdateChat ==
    /\ pc = "update"
    /\ \/ /\ LET id == Val(created).id
                 i == IndexOfId(_created_by_id, id)
                 body == [id |-> id, contentDetails |-> [enableLiveChat |-> "False"]]
                 item == [_created_by_id[i] EXCEPT !.contentDetails =
                             Update(_created_by_id[i].contentDetails, body.contentDetails)]
             IN  /\ remote' = IF i = 0 THEN remote
                               ELSE _items \o ReplaceId(_created_by_id, id, item)
                 /\ created' = IF i = 0 THEN created ELSE Some(item)
                 /\ chat_cd' = Update(chat_cd, body.contentDetails)
                 /\ events' = Append(events, [op |-> "update", id |-> id, ok |-> TRUE,
                                              slot |-> Slot, run |-> run_no, body |-> body])
          /\ pc' = "confirm"
          /\ UNCHANGED <<failed, faults, offset, def_idx, attempt>>
       \/ /\ CanFault
          /\ faults' = faults + 1
          /\ remote' = remote
          /\ \E error \in RunErrors :
                OnHttpError(events \o <<Call("update", Val(created).id, FALSE), Raised("update", error)>>, error)
    /\ UNCHANGED <<envVars, run_no, broadcasts, templates, shared_stream_id, planned,
                   created_titles, existing_titles, next_id, exit_code>>

\* the confirming list of _ensure_chat_disabled and its return
ConfirmChat ==
    /\ pc = "confirm"
    /\ \/ /\ LET items == ListById(Val(created).id)
                 confirmed_cd == ListedContentDetails(items)
                 merged == Update(chat_cd, confirmed_cd)
             IN  /\ chat_cd' = merged
                 /\ created' = Some([Val(created) EXCEPT !.contentDetails = merged])
                 /\ events' = events \o <<ChatRead(Val(created).id, confirmed_cd),
                                           Log(IF ChatEnabled(merged, "False") THEN "WARN" ELSE "CHAT")>>
          /\ pc' = "fetch"
          /\ UNCHANGED <<failed, faults, offset, def_idx, attempt>>
       \/ /\ CanFault
          /\ faults' = faults + 1
          /\ \E error \in RunErrors :
                OnHttpError(events \o <<Call("list", Val(created).id, FALSE), Raised("list", error)>>, error)
    /\ UNCHANGED <<envVars, remote, run_no, broadcasts, templates, shared_stream_id, planned,
                   created_titles, existing_titles, next_id, exit_code>>

\* _fetch_broadcast_state, the CREATED line and created_titles.append
FetchState ==
    /\ pc = "fetch"
    /\ \/ /\ LET items == ListById(Val(created).id)
             IN  created' = IF items = <<>> THEN created ELSE Some(items[1])
          /\ events' = events \o <<Call("list", Val(created).id, TRUE), Log("CREATED")>>
          /\ created_titles' = Append(created_titles, Title)
          /\ pc' = "thumbnail"
          /\ UNCHANGED <<failed, faults, offset, def_idx, attempt, chat_cd>>
       \/ /\ CanFault
          /\ faults' = faults + 1
          /\ created_titles' = created_titles
          /\ \E error \in RunErrors :
                OnHttpError(events \o <<Call("list", Val(created).id, FALSE), Raised("list", error)>>, error)
    /\ UNCHANGED <<envVars, remote, run_no, broadcasts, templates, shared_stream_id, planned,
                   existing_titles, next_id, exit_code>>

\* Validated with broadcasts.insert(0, created)
ValidatedInFront ==
    /\ broadcasts' = <<Val(created)>> \o broadcasts
    /\ pc' = IF ~IsNone(shared_stream_id) /\ Truthy(Val(shared_stream_id)) THEN "bind" ELSE "pause"
    /\ UNCHANGED <<offset, def_idx, attempt, created, chat_cd>>

\* Validated without broadcasts.append(created)
ValidatedWithoutAppend ==
    /\ broadcasts' = broadcasts
    /\ pc' = IF ~IsNone(shared_stream_id) /\ Truthy(Val(shared_stream_id)) THEN "bind" ELSE "pause"
    /\ UNCHANGED <<offset, def_idx, attempt, created, chat_cd>>

\* after _ensure_thumbnail returned True: the cache append and the way to bind
Validated ==
    /\ broadcasts' = Append(broadcasts, Val(created))
    /\ pc' = IF ~IsNone(shared_stream_id) /\ Truthy(Val(shared_stream_id)) THEN "bind" ELSE "pause"
    /\ UNCHANGED <<offset, def_idx, attempt, created, chat_cd>>

HasThumbnailToCopy ==
    /\ ~IsNone(Template)
    /\ ~IsNone(Val(Template).thumbnail_url)
    /\ Truthy(Val(Val(Template).thumbnail_url))

\* _ensure_thumbnail and the branch on its result
Thumbnail ==
    /\ pc = "thumbnail"
    /\ \/ /\ ~youtube.has_thumbnails
          /\ Validated
          /\ UNCHANGED <<remote, events, faults>>
       \/ /\ youtube.has_thumbnails
          /\ ~HasThumbnailToCopy
          /\ events' = Append(events, [op |-> "no_thumbnail", id |-> Val(created).id,
                                       slot |-> Slot, run |-> run_no])
          /\ pc' = "delete"
          /\ UNCHANGED <<remote, broadcasts, faults, offset, def_idx, attempt, created, chat_cd>>
       \/ /\ youtube.has_thumbnails
          /\ HasThumbnailToCopy
          /\ ~youtube.thumbnail_always_fails
          /\ LET id == Val(created).id
                 url == Val(Val(Template).thumbnail_url)
             IN  /\ remote' = remote
                 /\ events' = Append(events, [op |-> "thumbnail", id |-> id, ok |-> TRUE,
                                              slot |-> Slot, run |-> run_no, url |-> url])
          /\ Validated
          /\ faults' = faults
       \/ /\ youtube.has_thumbnails
          /\ HasThumbnailToCopy
          /\ \E error \in RunErrors \cup {DownloadError} :
                /\ IF youtube.thumbnail_always_fails THEN error = DownloadError /\ faults' = faults
                   ELSE CanFault /\ faults' = faults + 1
                /\ events' = events \o
                      <<[op |-> "thumbnail", id |-> Val(created).id, ok |-> FALSE,
                         slot |-> Slot, run |-> run_no,
                         url |-> Val(Val(Template).thumbnail_url)],
                        Raised("thumbnail", error)>>
          /\ pc' = "delete"
          /\ UNCHANGED <<remote, broadcasts, offset, def_idx, attempt, created, chat_cd>>
    /\ UNCHANGED <<envVars, run_no, templates, shared_stream_id, listVars, next_id, exit_code>>

\* the rollback without its continue: the pacing sleep follows the delete
DeleteBroadcastThenPause ==
    /\ pc = "delete"
    /\ remote' = remote
    /\ events' = Append(events, Call("delete", Val(created).id, TRUE))
    /\ failed' = Append(failed, [title |-> Title, why |-> "miniatura no replicada"])
    /\ created_titles' = SubSeq(created_titles, 1, Len(created_titles) - 1)
    /\ pc' = "pause"
    /\ StaySlot
    /\ UNCHANGED <<envVars, run_no, broadcasts, templates, shared_stream_id, planned,
                   existing_titles, next_id, exit_code, faults>>

\* _delete_broadcast, failed.append, created_titles.pop() and continue
DeleteBroadcast ==
    /\ pc = "delete"
    /\ \/ /\ remote' = remote
          /\ events' = Append(events, Call("delete", Val(created).id, TRUE))
          /\ failed' = Append(failed, [title |-> Title, why |-> "miniatura no replicada"])
          /\ created_titles' = SubSeq(created_titles, 1, Len(created_titles) - 1)
          /\ NextIteration
          /\ faults' = faults
       \/ /\ CanFault
          /\ faults' = faults + 1
          /\ UNCHANGED <<remote, created_titles>>
          /\ \E error \in RunErrors :
                OnHttpError(events \o <<Call("delete", Val(created).id, FALSE), Raised("delete", error)>>,
                            error)
    /\ UNCHANGED <<envVars, run_no, broadcasts, templates, shared_stream_id, planned,
                   existing_titles, next_id, exit_code>>

BindEvent(ok) ==
    [op |-> "bind", id |-> Val(created).id, ok |-> ok, slot |-> Slot, run |-> run_no,
     stream |-> Val(shared_stream_id), attempt |-> attempt]

\* one pass of the retry loop around liveBroadcasts.bind
BindCall ==
    /\ pc = "bind"
    /\ \/ \* range(retry_limit + 1) is empty: no call, BIND is logged all the same
          /\ config.rate_limit_retry_limit < 0
          /\ events' = Append(events, Log("BIND"))
          /\ pc' = "pause"
          /\ StaySlot
          /\ UNCHANGED <<remote, failed, faults>>
       \/ /\ config.rate_limit_retry_limit >= 0
          /\ remote' = remote
          /\ events' = events \o <<BindEvent(TRUE), Log("BIND")>>
          /\ pc' = "pause"
          /\ StaySlot
          /\ UNCHANGED <<failed, faults>>
       \/ /\ config.rate_limit_retry_limit >= 0
          /\ CanFault
          /\ faults' = faults + 1
          /\ remote' = remote
          /\ \E error \in RunErrors :
                LET ev == events \o <<BindEvent(FALSE), Raised("bind", error)>>
                    what == _with_rate_limit_retry(attempt, config.rate_limit_retry_limit, error)
                IN  CASE what = "raise" -> OnHttpError(ev, error)
                      [] what = "crash" -> OnException(ev, _is_rate_limit_http_error(error)[2])
                      [] what = "stop" ->
                           OnStopCreationLimit(Append(ev, StopCreationLimit("bind", error)))
                      [] what = "sleep" ->
                           /\ \E jitter \in Jitters :
                                 events' = Append(ev, RetrySleep(attempt, jitter))
                           /\ attempt' = attempt + 1
                           /\ UNCHANGED <<pc, failed, offset, def_idx, created, chat_cd>>
    /\ UNCHANGED <<envVars, run_no, broadcasts, templates, shared_stream_id, planned,
                   created_titles, existing_titles, next_id, exit_code>>

\* sleep(config.create_pause_seconds), the end of the iteration
Pause ==
    /\ pc = "pause"
    /\ events' = Append(events, [op |-> "sleep", why |-> "pause", k |-> 0])
    /\ NextIteration
    /\ UNCHANGED <<envVars, remote, run_no, broadcasts, templates, shared_stream_id, listVars,
                   faults, next_id, exit_code>>

\* main: sys.exit(exit_code), or sys.exit(1) on any exception
MainExit ==
    /\ pc \in {"returned", "raised"}
    /\ exit_code' = Some(IF pc = "returned" THEN 0 ELSE 1)
    /\ pc' = "exited"
    /\ UNCHANGED <<envVars, remote, run_no, broadcasts, templates, shared_stream_id, listVars,
                   offset, def_idx, attempt, created, chat_cd, events, faults, next_id>>

\* _FakeLiveBroadcasts.deleted_ids of the run
deleted_ids ==
    {events[i].id : i \in {k \in 1..Len(events) :
                              events[k].op = "delete" /\ events[k].ok /\ events[k].run = run_no}}

\* what the client holds when the run is over: its items, and the records
\* it kept for its inserts and was not asked to delete
LeftBehind ==
    _items \o Filter(_created_by_id, {i \in 1..Len(_created_by_id) :
                                          _created_by_id[i].id \notin deleted_ids})

\* the job is started again, the same day, with a client built over what the
\* client of the first run holds; its inserted_bodies is empty, so the records
\* of its inserts are numbered from created-1 again
Rerun ==
    /\ pc = "exited"
    /\ run_no < MaxRuns
    /\ run_no' = run_no + 1
    /\ pc' = "start"
    /\ broadcasts' = <<>>
    /\ templates' = [kw \in {} |-> None]
    /\ shared_stream_id' = None
    /\ planned' = <<>> /\ created_titles' = <<>> /\ existing_titles' = <<>> /\ failed' = <<>>
    /\ offset' = 0 /\ def_idx' = 1 /\ attempt' = 0
    /\ created' = None /\ chat_cd' = EmptyDict
    /\ exit_code' = None
    /\ events' = Append(events, [op |-> "exit", run |-> run_no, code |-> Val(exit_code),
                                 planned |-> planned, created |-> created_titles,
                                 existing |-> existing_titles, failed |-> failed])
    /\ remote' = LeftBehind
    /\ youtube' = [youtube EXCEPT !.n_items = Len(LeftBehind)]
    /\ next_id' = 1
    /\ UNCHANGED <<today, config, pages, page_token, creator_class, faults>>

\* ------------------------------------------------------------------ scenarios

KW10 == <<"Misa", " ", "10h">>
KW12 == <<"Misa", " ", "12h">>
KW20 == <<"Misa", " ", "20h">>
KW21 == <<"Vela", " ", "21h">>

\* Europe/Madrid in January
MadridOffset == 1

Config(k12, start_offset_days, max_days_ahead, stop, retry_limit) ==
    [timezone |-> "Europe/Madrid", tz |-> MadridOffset, default_privacy_status |-> "unlisted",
     keyword_misa_10 |-> KW10, keyword_misa_12 |-> k12, keyword_misa_20 |-> KW20,
     keyword_vela_21 |-> KW21,
     start_offset_days |-> start_offset_days, max_days_ahead |-> max_days_ahead,
     stop_on_create_limit |-> stop, rate_limit_retry_limit |-> retry_limit,
     rate_limit_retry_base_seconds |-> 10, rate_limit_retry_max_seconds |-> 300,
     creation_mode |-> "api"]

\* creation_mode = "studio_ui"
StudioConfig(cfg) == [cfg EXCEPT !.creation_mode = "studio_ui"]

\* the client of the tests: whether it has thumbnails(), what its calls
\* raise, its two chat settings, and the number of items it was built over
Youtube(has_thumbnails, thumbnail_always_fails, insert_always_rate_limited, force_insert_chat_enabled, force_list_chat_enabled) ==
    [has_thumbnails |-> has_thumbnails, thumbnail_always_fails |-> thumbnail_always_fails,
     insert_always_rate_limited |-> insert_always_rate_limited,
     force_insert_chat_enabled |-> force_insert_chat_enabled,
     force_list_chat_enabled |-> force_list_chat_enabled,
     n_items |-> 0]

\* _FakeYoutube(items)
ClientOver(yt, items) == [yt EXCEPT !.n_items = Len(items)]

PlainYoutube == Youtube(TRUE, FALSE, FALSE, FALSE, FALSE)
NoThumbnailApi == Youtube(FALSE, FALSE, FALSE, FALSE, FALSE)
ThumbnailFails == Youtube(TRUE, TRUE, FALSE, FALSE, FALSE)
InsertRateLimited == Youtube(FALSE, FALSE, TRUE, FALSE, FALSE)
ChatDefaultOn == Youtube(FALSE, FALSE, FALSE, TRUE, FALSE)
ChatSticky == Youtube(FALSE, FALSE, FALSE, FALSE, TRUE)
ChatOnBoth == Youtube(FALSE, FALSE, FALSE, TRUE, TRUE)

\* an aired Misa 10h broadcast of yesterday, with thumbnail and stream
TemplateAired10(day) ==
    Item(-1, KW10 \o <<" ", "última">>, "Desc última 10",
         Stamp("iso", day - 1, 9, 0), Stamp("iso", day - 1, 10, 0),
         [high |-> "https://example.org/10.jpg"],
         [boundStreamId |-> "stream-emitted", enableLiveChat |-> "True", enableDvr |-> "False",
          enableLowLatency |-> "True", enableLiveChatReplay |-> "True"],
         [privacyStatus |-> "public", selfDeclaredMadeForKids |-> "False"],
         [adsMonetizationStatus |-> "off", cuepointSchedule |-> "enabled=True"],
         [categoryId |-> "29"])

\* a scheduled, not yet aired Misa 12h broadcast of today, with thumbnail and stream
TemplateScheduled12(day) ==
    Item(-2, KW12 \o <<" ", "plantilla">>, "Desc 12",
         Stamp("iso", day, 12, MadridOffset), NoStamp,
         [default |-> "", medium |-> "https://example.org/12.jpg"],
         [boundStreamId |-> "stream-12"],
         [privacyStatus |-> "unlisted"], EmptyDict, EmptyDict)

\* a Misa 12h broadcast somebody scheduled by hand for the first day of the
\* window, 12:00 local time, which the platform shows in UTC
ManualSlot12(day, cfg) ==
    Item(-3, KW12 \o <<" ", "-", " ", "Evento", " ", "manual">>, "",
         Stamp("iso", StartDate(day, cfg), 12 - cfg.tz, 0), NoStamp,
         EmptyDict, EmptyDict, [privacyStatus |-> "unlisted"], EmptyDict, EmptyDict)

\* an aired broadcast whose title is the Misa 20h title of the first day of
\* the window, in other case and spacing
AiredSameTitle20(day, cfg) ==
    Item(-4, build_title(<<" ", "MISA", "\t", " ", "20h">>, StartDate(day, cfg)) \o <<" ">>, "",
         Stamp("iso", day - 1, 19, 0), Stamp("iso", day - 1, 20, 0),
         EmptyDict, EmptyDict, [privacyStatus |-> "unlisted"], EmptyDict, EmptyDict)

\* an aired Misa 10h broadcast whose scheduled start is the 10:00 slot of the
\* first day of the window
AiredSlot10(day, cfg) ==
    Item(-5, KW10 \o <<" ", "repetida">>, "Desc repetida",
         Stamp("iso", StartDate(day, cfg), 10 - cfg.tz, 0), Stamp("iso", day - 2, 11, 0),
         EmptyDict, EmptyDict, [privacyStatus |-> "unlisted"], EmptyDict, EmptyDict)

\* a Misa 20h broadcast scheduled for 19:00 of the first day of the window,
\* bound to a stream
OtherStart20(day, cfg) ==
    Item(-6, KW20 \o <<" ", "ensayo">>, "",
         Stamp("iso", StartDate(day, cfg), 19, cfg.tz), NoStamp,
         EmptyDict, [boundStreamId |-> "stream-20"], [privacyStatus |-> "unlisted"], EmptyDict,
         EmptyDict)

\* three aired broadcasts bound to three streams; the one that ended last is
\* the second of the list and is not of the first keyword
CatStreams(day, cfg) ==
    <<Item(-7, KW10 \o <<" ", "emitida">>, "",
           Stamp("iso", day - 2, 9, 0), Stamp("iso", day - 2, 10, 0),
           EmptyDict, [boundStreamId |-> "stream-old-10"], [privacyStatus |-> "unlisted"],
           EmptyDict, EmptyDict),
      Item(-8, KW20 \o <<" ", "emitida">>, "",
           Stamp("iso", day - 1, 19, 0), Stamp("iso", day - 1, 20, 0),
           EmptyDict, [boundStreamId |-> "stream-latest"], [privacyStatus |-> "unlisted"],
           EmptyDict, EmptyDict),
      Item(-9, KW12 \o <<" ", "emitida">>, "",
           Stamp("iso", day - 3, 11, 0), Stamp("iso", day - 3, 12, 0),
           EmptyDict, [boundStreamId |-> "stream-old-12"], [privacyStatus |-> "unlisted"],
           EmptyDict, EmptyDict)>>

CatEmpty(day, cfg) == <<>>
CatTemplates(day, cfg) == <<TemplateScheduled12(day), TemplateAired10(day)>>
CatExisting(day, cfg) == <<ManualSlot12(day, cfg), AiredSameTitle20(day, cfg), TemplateAired10(day)>>
CatSlots(day, cfg) ==
    <<AiredSlot10(day, cfg), OtherStart20(day, cfg), ManualSlot12(day, cfg), TemplateScheduled12(day)>>

Todays == {13, 17}

Catalog(name, day, cfg) ==
    CASE name = "empty" -> CatEmpty(day, cfg)
      [] name = "templates" -> CatTemplates(day, cfg)
      [] name = "existing" -> CatExisting(day, cfg)
      [] name = "slots" -> CatSlots(day, cfg)
      [] name = "streams" -> CatStreams(day, cfg)

Scenario(day, cfg, yt, name) ==
    [today |-> day, config |-> cfg, youtube |-> yt, catalog |-> Catalog(name, day, cfg)]

Scenarios ==
    \* failures of single calls, one day
    {Scenario(d, Config(KW12, 1, 1, stop, retry), PlainYoutube, "templates") :
        d \in Todays, stop \in BOOLEAN, retry \in {0, 1}}
    \cup
    \* the window
    {Scenario(d, Config(KW12, w[1], w[2], TRUE, 1), yt, "templates") :
        d \in Todays, w \in {<<1, 1>>, <<10, 30>>, <<12, 30>>, <<2, 1>>},
        yt \in {PlainYoutube, NoThumbnailApi}}
    \cup
    \* what is there already
    {Scenario(d, Config(k12, 1, 1, TRUE, 1), yt, cat) :
        d \in Todays, k12 \in {KW12, KW10}, yt \in {PlainYoutube, NoThumbnailApi, ThumbnailFails},
        cat \in {"empty", "existing"}}
    \cup
    \* records of the keywords of the slots that are aired or start at another time
    {Scenario(d, Config(KW12, 1, 1, TRUE, 1), NoThumbnailApi, "slots") : d \in Todays}
    \cup
    \* several aired broadcasts bound to different streams
    {Scenario(13, Config(KW12, 1, 1, TRUE, 1), NoThumbnailApi, "streams")}
    \cup
    \* a client that answers every insert with a rate-limit error
    {Scenario(13, Config(KW12, 1, 1, sr[1], sr[2]), yt, "empty") :
        sr \in (BOOLEAN \X {-1, 0, 1}) \cup {<<TRUE, 2>>},
        yt \in {InsertRateLimited, NoThumbnailApi}}
    \cup
    \* a client that turns the chat on
    {Scenario(13, Config(KW12, 1, 1, TRUE, 1), yt, "empty") : yt \in {ChatDefaultOn, ChatSticky, ChatOnBoth}}
    \cup
    \* the configuration load_config gives when YT_CREATION_MODE is not set
    {Scenario(17, StudioConfig(Config(KW12, 1, 1, TRUE, 1)), yt, "templates") :
        yt \in {PlainYoutube, NoThumbnailApi}}

Init ==
    /\ \E s \in Scenarios :
          /\ today = s.today
          /\ config = s.config
          /\ youtube = ClientOver(s.youtube, s.catalog)
          /\ remote = s.catalog
    /\ run_no = 1
    /\ pc = "start"
    /\ broadcasts = <<>>
    /\ templates = [kw \in {} |-> None]
    /\ shared_stream_id = None
    /\ planned = <<>> /\ created_titles = <<>> /\ existing_titles = <<>> /\ failed = <<>>
    /\ offset = 0 /\ def_idx = 1 /\ attempt = 0
    /\ created = None /\ chat_cd = EmptyDict
    /\ events = <<>>
    /\ faults = 0
    /\ next_id = 1
    /\ exit_code = None
    /\ pages = <<>> /\ page_token = None
    /\ creator_class = "StudioBroadcastCreator"

Next ==
    \/ ListCatalog
    \/ LoopHead
    \/ Finish
    \/ InsertCall
    \/ VerifyChat
    \/ UpdateChat
    \/ ConfirmChat
    \/ FetchState
    \/ Thumbnail
    \/ DeleteBroadcast
    \/ BindCall
    \/ Pause
    \/ MainExit
    \/ Rerun

Spec == Init /\ [][Next]_vars

\* ------------------------------------------------------------------ template selection alone

MaxItems == 3

Lower10 == <<"misa", " ", "10h">>

\* records of a catalog: aired ones whose end times read the same on the clock
\* at different offsets, scheduled ones with and without metadata, one whose
\* title has the keyword in lower case, others of another keyword
TemplatePool ==
    {Item(-11, KW10 \o <<" ", "a">>, "Desc a", Stamp("iso", 11, 9, 0), Stamp("iso", 11, 10, 0),
          EmptyDict, EmptyDict, EmptyDict, EmptyDict, EmptyDict),
     Item(-12, <<"b", " ">> \o KW10, "Desc b", Stamp("iso", 11, 9, 1), Stamp("iso", 11, 10, 1),
          [default |-> "https://example.org/b.jpg"], EmptyDict, EmptyDict, EmptyDict, EmptyDict),
     Item(-13, KW10 \o <<" ", "c">>, "Desc c", Stamp("iso", 20, 10, 1), NoStamp,
          EmptyDict, EmptyDict, EmptyDict, EmptyDict, EmptyDict),
     Item(-14, KW10 \o <<" ", "d">>, "", Stamp("naive", 21, 10, 0), NoStamp,
          [high |-> "https://example.org/d.jpg"], EmptyDict, EmptyDict, EmptyDict, EmptyDict),
     Item(-15, KW10 \o <<" ", "e">>, "", Stamp("iso", 25, 10, 1), NoStamp,
          EmptyDict, [enableDvr |-> "True"], EmptyDict, EmptyDict, EmptyDict),
     Item(-16, Lower10 \o <<" ", "f">>, "Desc f", Stamp("iso", 30, 10, 1), Stamp("iso", 12, 10, 1),
          EmptyDict, EmptyDict, EmptyDict, EmptyDict, EmptyDict),
     Item(-17, KW12 \o <<" ", "g">>, "", NoStamp, NoStamp,
          EmptyDict, [boundStreamId |-> "stream-g"], EmptyDict, EmptyDict, EmptyDict),
     Item(-18, KW12 \o <<" ", "h">>, "", BadStamp, NoStamp,
          EmptyDict, EmptyDict, EmptyDict, EmptyDict, EmptyDict)}

\* the catalogs: up to MaxItems different records of the pool, in any order
TemplateCatalogs ==
    {c \in UNION {[1..n -> TemplatePool] : n \in 0..MaxItems} :
        \A i, j \in 1..Len(c) : c[i] = c[j] => i = j}

InitTemplate ==
    /\ today = 13
    /\ config = Config(KW12, 1, 1, TRUE, 1)
    /\ remote \in TemplateCatalogs
    /\ youtube = ClientOver(PlainYoutube, remote)
    /\ run_no = 1
    /\ pc = "resolve"
    /\ broadcasts = remote
    /\ templates = [kw \in {} |-> None]
    /\ shared_stream_id = None
    /\ planned = <<>> /\ created_titles = <<>> /\ existing_titles = <<>> /\ failed = <<>>
    /\ offset = 0 /\ def_idx = 1 /\ attempt = 0
    /\ created = None /\ chat_cd = EmptyDict
    /\ events = <<>>
    /\ faults = 0
    /\ next_id = 1
    /\ exit_code = None
    /\ pages = <<>> /\ page_token = None
    /\ creator_class = "StudioBroadcastCreator"

\* the templates of every keyword of the definitions, from the catalog
ResolveTemplate ==
    /\ pc = "resolve"
    /\ templates' = ResolveTemplates(broadcasts, config)
    /\ pc' = "resolved"
    /\ UNCHANGED <<envVars, remote, run_no, broadcasts, shared_stream_id, listVars, offset,
                   def_idx, attempt, created, chat_cd, events, faults, next_id, exit_code>>

NextTemplate == ResolveTemplate

SpecTemplate == InitTemplate /\ [][NextTemplate]_vars

\* ------------------------------------------------------------------ the retry executor alone

\* _with_rate_limit_retry applied to an operation that answers each
\* invocation with a result or with an error, for the limits and the waits a
\* configuration can hold (seconds in tenths)
MaxRetryLimit == 3
RetryLimits == -1..MaxRetryLimit
BaseSeconds == {0, 10, 25}
MaxSeconds == {0, 30, 300}

ErrRateLimitExceeded ==
    HttpError(403, TRUE, TRUE, "rateLimitExceeded", <<>>, <<"Too", " ", "many", " ", "requests">>)
ErrForbiddenWords ==
    HttpError(403, TRUE, TRUE, "forbidden", <<"Rate", " ", "Limit", " ", "Exceeded">>, <<>>)
ErrTooManyRequests ==
    HttpError(429, TRUE, TRUE, "rateLimitExceeded", <<"Rate", " ", "Limit", " ", "Exceeded">>, <<>>)
ErrUnparsable == HttpError(403, FALSE, FALSE, "None", <<>>, <<>>)

\* what an invocation of the operation can raise; DownloadError stands for an
\* exception that is no HttpError
OperationErrors ==
    {ErrRateLimit, ErrRateLimitExceeded, ErrTooManyRequests, ErrForbiddenWords, ErrQuota,
     ErrBackend, ErrUnparsable, HttpErrorNotUtf8(403), HttpErrorNotObject(400), DownloadError}

RetryConfig(retry_limit, base_seconds, max_seconds) ==
    [Config(KW12, 1, 1, TRUE, retry_limit) EXCEPT
        !.rate_limit_retry_base_seconds = base_seconds,
        !.rate_limit_retry_max_seconds = max_seconds]

\* operation() called in the pass att of the loop
Invocation(att, ok) == [op |-> "operation", attempt |-> att, ok |-> ok]
\* the executor returned value
Returned(value) == [op |-> "return", value |-> value]
\* the executor let the error of the operation through
Propagated(error) == [op |-> "propagated", error |-> error]

InitRetry ==
    /\ today = 13
    /\ \E retry_limit \in RetryLimits, base_seconds \in BaseSeconds, max_seconds \in MaxSeconds :
          config = RetryConfig(retry_limit, base_seconds, max_seconds)
    /\ youtube = PlainYoutube
    /\ remote = <<>>
    /\ run_no = 1
    /\ pc = "retry"
    /\ broadcasts = <<>>
    /\ templates = [kw \in {} |-> None]
    /\ shared_stream_id = None
    /\ planned = <<>> /\ created_titles = <<>> /\ existing_titles = <<>> /\ failed = <<>>
    /\ offset = 0 /\ def_idx = 1 /\ attempt = 0
    /\ created = None /\ chat_cd = EmptyDict
    /\ events = <<>>
    /\ faults = 0
    /\ next_id = 1
    /\ exit_code = None
    /\ pages = <<>> /\ page_token = None
    /\ creator_class = "StudioBroadcastCreator"

\* one pass of "for attempt in range(retry_limit + 1)", or the end of the loop
RetryPass ==
    /\ pc = "retry"
    /\ IF attempt > config.rate_limit_retry_limit
       THEN /\ events' = Append(events, Returned("None"))
            /\ pc' = "retry_returned"
            /\ attempt' = attempt
       ELSE \/ /\ events' = events \o <<Invocation(attempt, TRUE), Returned("result")>>
               /\ pc' = "retry_returned"
               /\ attempt' = attempt
            \/ \E error \in OperationErrors :
                 LET ev == events \o <<Invocation(attempt, FALSE), Raised("operation", error)>>
                     todo == _with_rate_limit_retry(attempt, config.rate_limit_retry_limit, error)
                 IN  CASE todo = "crash" ->
                              /\ events' = Append(ev, Crashed(_is_rate_limit_http_error(error)[2]))
                              /\ pc' = "retry_raised"
                              /\ attempt' = attempt
                       [] todo = "raise" ->
                              /\ events' = Append(ev, Propagated(error))
                              /\ pc' = "retry_raised"
                              /\ attempt' = attempt
                       [] todo = "stop" ->
                              /\ events' = Append(ev, StopCreationLimit("operation", error))
                              /\ pc' = "retry_raised"
                              /\ attempt' = attempt
                       [] todo = "sleep" ->
                              /\ \E jitter \in Jitters : events' = Append(ev, RetrySleep(attempt, jitter))
                              /\ pc' = "retry"
                              /\ attempt' = attempt + 1
    /\ UNCHANGED <<envVars, remote, run_no, broadcasts, templates, shared_stream_id, listVars,
                   offset, def_idx, created, chat_cd, faults, next_id, exit_code>>

NextRetry == RetryPass

SpecRetry == InitRetry /\ [][NextRetry]_vars

\* ------------------------------------------------------------------ _iter_broadcasts alone

MaxPages == 3
MaxPageItems == 2

\* the tokens of the platform: PageTokens[k] asks for page k
PageTokens == <<"first", "page2", "page3", "page4", "page5">>

\* one response of liveBroadcasts.list: items and, when present, nextPageToken
Response(items, token) == [items |-> items, nextPageToken |-> token]

\* the ends of a response: no nextPageToken, an empty one, or that of page k + 1
NextTokens(k, n) ==
    {None, Some("")} \cup (IF k < n THEN {Some(PageTokens[k + 1])} ELSE {})

\* page k of n: up to MaxPageItems items k*10 + 1, ... and one of the ends
ResponsesAt(k, n) ==
    {Response([i \in 1..m |-> k * 10 + i], t) : m \in 0..MaxPageItems, t \in NextTokens(k, n)}

\* catalogs of 1..MaxPages pages
PagedCatalogs ==
    UNION {{p \in [1..n -> UNION {ResponsesAt(k, n) : k \in 1..n}] :
                \A k \in 1..n : p[k] \in ResponsesAt(k, n)}
           : n \in 1..MaxPages}

InitPages ==
    /\ today = 13
    /\ config = Config(KW12, 1, 1, TRUE, 1)
    /\ youtube = PlainYoutube
    /\ remote = <<>>
    /\ run_no = 1
    /\ pc = "page"
    /\ broadcasts = <<>>
    /\ templates = [kw \in {} |-> None]
    /\ shared_stream_id = None
    /\ planned = <<>> /\ created_titles = <<>> /\ existing_titles = <<>> /\ failed = <<>>
    /\ offset = 0 /\ def_idx = 1 /\ attempt = 0
    /\ created = None /\ chat_cd = EmptyDict
    /\ events = <<>>
    /\ faults = 0
    /\ next_id = 1
    /\ exit_code = None
    /\ pages \in PagedCatalogs
    /\ page_token = None
    /\ creator_class = "StudioBroadcastCreator"

\* the response of the platform to a request with pageToken = token
ResponseTo(token) ==
    IF IsNone(token) THEN pages[1]
    ELSE pages[CHOOSE k \in 1..Len(PageTokens) : PageTokens[k] = Val(token)]

\* the loop that ends after every page, whatever its nextPageToken
PageRequestOnce ==
    /\ pc = "page"
    /\ events' = Append(events, [op |-> "page", pageToken |-> page_token, ok |-> TRUE])
    /\ broadcasts' = broadcasts \o ResponseTo(page_token).items
    /\ page_token' = ResponseTo(page_token).nextPageToken
    /\ pc' = "paged"
    /\ faults' = faults
    /\ UNCHANGED <<today, config, youtube, pages, creator_class, remote, run_no, templates,
                   shared_stream_id, listVars, offset, def_idx, attempt, created, chat_cd, next_id,
                   exit_code>>

\* one pass of the while loop of _iter_broadcasts, drained by list(): the
\* request, the items yielded, the next token and the test that ends the loop
PageRequest ==
    /\ pc = "page"
    /\ \/ /\ events' = Append(events, [op |-> "page", pageToken |-> page_token, ok |-> TRUE])
          /\ broadcasts' = broadcasts \o ResponseTo(page_token).items
          /\ page_token' = ResponseTo(page_token).nextPageToken
          /\ pc' = IF IsNone(page_token') \/ ~Truthy(Val(page_token')) THEN "paged" ELSE "page"
          /\ faults' = faults
       \/ /\ CanFault
          /\ faults' = faults + 1
          /\ \E error \in RunErrors :
                events' = events \o <<[op |-> "page", pageToken |-> page_token, ok |-> FALSE],
                                      Raised("page", error)>>
          /\ pc' = "page_raised"
          /\ UNCHANGED <<broadcasts, page_token>>
    /\ UNCHANGED <<today, config, youtube, pages, creator_class, remote, run_no, templates,
                   shared_stream_id, listVars, offset, def_idx, attempt, created, chat_cd, next_id,
                   exit_code>>

NextPages == PageRequest

SpecPages == InitPages /\ [][NextPages]_vars /\ WF_vars(PageRequest)

\* ------------------------------------------------------------------ run_scheduler_studio

InitStudio ==
    /\ \E s \in Scenarios :
          /\ today = s.today
          /\ config = StudioConfig(s.config)
          /\ youtube = ClientOver(s.youtube, s.catalog)
          /\ remote = s.catalog
    /\ run_no = 1
    /\ pc = "studio_start"
    /\ broadcasts = <<>>
    /\ templates = [kw \in {} |-> None]
    /\ shared_stream_id = None
    /\ planned = <<>> /\ created_titles = <<>> /\ existing_titles = <<>> /\ failed = <<>>
    /\ offset = 0 /\ def_idx = 1 /\ attempt = 0
    /\ created = None /\ chat_cd = EmptyDict
    /\ events = <<>>
    /\ faults = 0
    /\ next_id = 1
    /\ exit_code = None
    /\ pages = <<>> /\ page_token = None
    /\ creator_class \in {"StudioBroadcastCreator", "_FakeStudioCreator"}

\* broadcasts = list(_iter_broadcasts(youtube)), the date range and the
\* templates
StudioList ==
    /\ pc = "studio_start"
    /\ \/ /\ broadcasts' = _items
          /\ faults' = faults
          /\ IF StartDate(today, config) > EndDate(today, config)
             THEN /\ pc' = "returned"
                  /\ events' = events \o <<Call("list_all", 0, TRUE), Log("SKIP_RANGE")>>
                  /\ UNCHANGED templates
             ELSE /\ pc' = "studio_creator"
                  /\ events' = Append(events, Call("list_all", 0, TRUE))
                  /\ templates' = ResolveTemplates(_items, config)
       \/ /\ CanFault
          /\ \E error \in RunErrors :
                events' = events \o <<Call("list_all", 0, FALSE), Raised("list_all", error)>>
          /\ faults' = faults + 1
          /\ pc' = "raised"
          /\ UNCHANGED <<broadcasts, templates>>
    /\ UNCHANGED <<envVars, remote, run_no, shared_stream_id, listVars, offset, def_idx, attempt,
                   created, chat_cd, next_id, exit_code>>

\* creator = StudioBroadcastCreator(storage_state_path=..., headless=...,
\* timeout_ms=..., slow_mo_ms=...) and the entry of the with block. __init__
\* of the class of studio_creator.py has two more keyword-only parameters
\* without default, log_screenshots and log_screenshots_dir, so the call
\* raises TypeError before the with block; the class the tests put in its
\* place takes any keywords and its __enter__ returns it
StudioCreator ==
    /\ pc = "studio_creator"
    /\ IF creator_class = "StudioBroadcastCreator"
       THEN /\ events' = Append(events, [op |-> "raise", call |-> "StudioBroadcastCreator",
                                         error |-> "TypeError", slot |-> Slot, run |-> run_no])
            /\ pc' = "raised"
       ELSE /\ events' = events \o <<[op |-> "__enter__", run |-> run_no], Log("MODE")>>
            /\ pc' = "studio_loop"
    /\ UNCHANGED <<envVars, remote, run_no, broadcasts, templates, shared_stream_id, listVars,
                   offset, def_idx, attempt, created, chat_cd, faults, next_id, exit_code>>

\* continue, or the end of one iteration, in the loop of run_scheduler_studio
StudioNextIteration ==
    /\ pc' = "studio_loop"
    /\ IF def_idx < Len(Definitions(config))
       THEN offset' = offset /\ def_idx' = def_idx + 1
       ELSE offset' = offset + 1 /\ def_idx' = 1
    /\ UNCHANGED <<attempt, created, chat_cd>>

\* the head of one iteration of the loop of run_scheduler_studio: the weekly
\* filter, the dedupe check, the plan
StudioLoopHead ==
    /\ pc = "studio_loop"
    /\ offset < TotalDays(today, config)
    /\ \/ /\ SkippedWeekly(CurDef, TargetDate, config)
          /\ StudioNextIteration
          /\ UNCHANGED <<listVars, events>>
       \/ /\ ~SkippedWeekly(CurDef, TargetDate, config)
          /\ ~IsNone(Existing)
          /\ existing_titles' = Append(existing_titles, Title)
          /\ events' = Append(events, [op |-> "skip", slot |-> Slot, id |-> Val(Existing).id,
                                       run |-> run_no])
          /\ StudioNextIteration
          /\ UNCHANGED <<planned, created_titles, failed>>
       \/ /\ ~SkippedWeekly(CurDef, TargetDate, config)
          /\ IsNone(Existing)
          /\ planned' = Append(planned, Title)
          /\ pc' = "studio_create"
          /\ UNCHANGED <<created_titles, existing_titles, failed, events>>
          /\ StaySlot
    /\ UNCHANGED <<envVars, remote, run_no, broadcasts, templates, shared_stream_id, faults,
                   next_id, exit_code>>

\* the record run_scheduler_studio appends to the cache: id "studio-N", the
\* title and the start of the slot
StudioRecord(n, title, scheduled_start, tz) ==
    Item("studio-" \o ToString(n), title, "", _rfc3339(scheduled_start, tz), NoStamp,
         EmptyDict, EmptyDict, EmptyDict, EmptyDict, EmptyDict)

\* creator.create_with_previous_settings(...) of the tests' class, which
\* records the call and returns, and the rest of the try block
StudioCreate ==
    /\ pc = "studio_create"
    /\ events' = events \o
          <<[op |-> "create_with_previous_settings", title |-> Title,
             scheduled_start |-> ScheduledStart, template_keyword |-> CurDef.keyword,
             slot |-> Slot, run |-> run_no],
            Log("CREATED(STUDIO)")>>
    /\ created_titles' = Append(created_titles, Title)
    /\ broadcasts' = Append(broadcasts,
                            StudioRecord(Len(created_titles) + 1, Title, ScheduledStart, config.tz))
    /\ StudioNextIteration
    /\ UNCHANGED <<envVars, remote, run_no, templates, shared_stream_id, planned, existing_titles,
                   failed, faults, next_id, exit_code>>

\* both loops are over: __exit__ of the creator, DONE(STUDIO) and the summary
StudioFinish ==
    /\ pc = "studio_loop"
    /\ offset >= TotalDays(today, config)
    /\ events' = events \o <<[op |-> "__exit__", run |-> run_no], Log("DONE(STUDIO)"),
                              SummaryOf(planned, created_titles, existing_titles, failed)>>
    /\ pc' = "returned"
    /\ UNCHANGED <<envVars, remote, run_no, broadcasts, templates, shared_stream_id, listVars,
                   offset, def_idx, attempt, created, chat_cd, faults, next_id, exit_code>>

NextStudio == StudioList \/ StudioCreator \/ StudioLoopHead \/ StudioCreate \/ StudioFinish

SpecStudio == InitStudio /\ [][NextStudio]_vars

\* ------------------------------------------------------------------ vocabulary of the properties

Terminated == pc \in {"returned", "raised", "exited"}

IsEvent(i, op) == events[i].op = op
InsertsOk(run) ==
    {i \in 1..Len(events) : IsEvent(i, "insert") /\ events[i].ok /\ events[i].run = run}
InsertCalls(run) == {i \in 1..Len(events) : IsEvent(i, "insert") /\ events[i].run = run}

SlotDef(slot) == Definitions(config)[slot[2]]
SlotTitle(slot) == build_title(SlotDef(slot).prefix, slot[1])
SlotStart(slot) == slot[1] * 24 + SlotDef(slot).scheduled_time - config.tz

\* every (date, definition) the planner yields for this run
RunSlots ==
    {slot \in (StartDate(today, config)..EndDate(today, config)) \X (1..4) :
        ~(SlotDef(slot).keyword = config.keyword_vela_21 /\ Weekday(slot[1]) # 3)}

\* the instant a timestamp denotes, -1 when it denotes none
InstantOf(stamp) ==
    CASE stamp.kind = "iso" -> stamp.day * 24 + stamp.hour - stamp.off
      [] stamp.kind = "naive" -> stamp.day * 24 + stamp.hour
      [] OTHER -> -1

\* item books the slot: same normalized title, or not aired, of the slot's
\* keyword and scheduled at the slot's start
MatchesSlot(item, slot) ==
    \/ NormalizeTitle(item.title) = NormalizeTitle(SlotTitle(slot))
    \/ /\ item.actualEndTime.kind = "none"
       /\ Contains(SlotDef(slot).keyword, item.title)
       /\ InstantOf(item.scheduledStartTime) = SlotStart(slot)

\* the events of the run in progress start here
RunFirst ==
    LET exits == {i \in 1..Len(events) : IsEvent(i, "exit")}
    IN  IF exits = {} THEN 1 ELSE (CHOOSE i \in exits : \A j \in exits : j <= i) + 1

RunEvents == RunFirst..Len(events)

\* the ids the client gave to the broadcasts the run created; a record the
\* client was built over may have one of them, the client of an earlier run
\* having numbered its own from created-1 too
CreatedIds == {events[i].id : i \in InsertsOk(run_no)}

\* the catalog listing of the run was answered
CatalogListed == \E i \in RunEvents : IsEvent(i, "list_all") /\ events[i].ok

\* the cache as the list call of this run returned it
InitialCache == IF CatalogListed THEN _items ELSE <<>>

\* the records of the cache after the listed ones
CachedCreated == SubSeq(broadcasts, Len(InitialCache) + 1, Len(broadcasts))

\* the broadcast of insert i passed the thumbnail validation: its thumbnail
\* was set, or the client has no thumbnail API and the loop went past the
\* validation after the state re-read
PassedValidation(i) ==
    \/ \E t \in RunEvents :
          IsEvent(t, "thumbnail") /\ events[t].ok /\ events[t].id = events[i].id
    \/ /\ ~youtube.has_thumbnails
       /\ \E k \in RunEvents :
             /\ k > i /\ IsEvent(k, "list") /\ events[k].ok /\ events[k].id = events[i].id
             /\ "contentDetails" \notin DOMAIN events[k]
       /\ ~(pc = "thumbnail" /\ Slot = events[i].slot)

\* the cache as it was at event s: the listed catalog and the records of the
\* broadcasts created before s that passed the validation
CacheAt(s) ==
    LET n == Cardinality({i \in InsertsOk(run_no) : i < s /\ PassedValidation(i)})
    IN  InitialCache \o SubSeq(CachedCreated, 1, Min(n, Len(CachedCreated)))

\* the record the skip at event s was decided on: what the existence check
\* of the slot finds in the cache of that moment
SkipRecord(s) ==
    find_scheduled_broadcast_for_slot_in_items(
        CacheAt(s), SlotTitle(events[s].slot), SlotDef(events[s].slot).keyword,
        Combine(events[s].slot[1], SlotDef(events[s].slot).scheduled_time, config.tz), config.tz)

\* the skip at event s was decided on a record the run appended to the cache
SkippedOnCreated(s) ==
    /\ ~IsNone(SkipRecord(s))
    /\ \A k \in 1..Len(InitialCache) : InitialCache[k] # Val(SkipRecord(s))

\* ------------------------------------------------------------------ C1

\* C1: no insert is issued for a slot while the cache holds a record that
\* matches it (same normalized title, or not aired with the slot's keyword and
\* scheduled start); so no slot gets two broadcasts inserted in a run and at
\* no time do two broadcasts the client holds match the same slot.
C1_NoDoubleBooking ==
    /\ pc = "insert" => \A i \in 1..Len(broadcasts) : ~MatchesSlot(broadcasts[i], Slot)
    /\ \A i, j \in InsertsOk(run_no) : events[i].slot = events[j].slot => i = j
    /\ \A slot \in RunSlots :
          Cardinality({k \in 1..Len(LeftBehind) : MatchesSlot(LeftBehind[k], slot)}) <= 1

\* a slot was skipped because of a broadcast created earlier in the same run
C1_Witness ==
    \E i \in RunEvents :
        /\ IsEvent(i, "skip")
        /\ SkippedOnCreated(i)
        /\ \E j \in InsertsOk(run_no) : j < i /\ events[j].id = events[i].id

\* ------------------------------------------------------------------ C2

Logged(tag, run) ==
    \E i \in 1..Len(events) : IsEvent(i, "log") /\ events[i].tag = tag /\ events[i].run = run

\* the first run reached the end of its window, or found it empty, returned
\* 0, and no call of it raised
FirstRunUndisturbed ==
    /\ Logged("DONE", 1) \/ Logged("SKIP_RANGE", 1)
    /\ \E i \in 1..Len(events) : IsEvent(i, "exit") /\ events[i].run = 1 /\ events[i].code = 0
    /\ \A i \in 1..Len(events) :
          events[i].op \in {"raise", "crash", "StopCreationLimit"} => events[i].run # 1

AllSlotsExisting ==
    /\ Len(existing_titles) = Cardinality(RunSlots)
    /\ SeqToSet(existing_titles) = {SlotTitle(slot) : slot \in RunSlots}

\* C2: a second run against the state left by a first run that went through
\* its window without a failing call issues no insert, and when it completes
\* every slot is recorded as existing.
C2_Idempotent ==
    (run_no = 2 /\ FirstRunUndisturbed) =>
        /\ InsertCalls(2) = {}
        /\ Logged("DONE", 2) => AllSlotsExisting

\* ------------------------------------------------------------------ C3, C4

\* the thumbnail calls of the run that raised
ThumbnailFailures == {i \in 1..Len(events) :
    IsEvent(i, "thumbnail") /\ ~events[i].ok /\ events[i].run = run_no}

Deleted(id) == \E k \in RunEvents : IsEvent(k, "delete") /\ events[k].ok /\ events[k].id = id

\* C3: once the slot of a failed thumbnail replication is over, or the run has
\* ended in whatever way, the broadcast of that slot is no longer on the
\* platform.
C3_FailedThumbnailDeleted ==
    \A i \in ThumbnailFailures :
        (Terminated \/ Slot # events[i].slot) => events[i].id \in deleted_ids

\* C4: after the thumbnail call raised, the run does not end in that slot, and
\* once it has left the slot the broadcast was deleted, its title is in the
\* failed list and not in the created list, and the cache does not hold it.
C4_ThumbnailRollback ==
    \A i \in ThumbnailFailures :
        /\ ~(Terminated /\ Slot = events[i].slot)
        /\ Slot # events[i].slot =>
              /\ Deleted(events[i].id)
              /\ \E k \in 1..Len(failed) : failed[k].title = SlotTitle(events[i].slot)
              /\ SlotTitle(events[i].slot) \notin SeqToSet(created_titles)
              /\ \A k \in 1..Len(CachedCreated) : CachedCreated[k].id # events[i].id

\* ------------------------------------------------------------------ C5

\* C5: with stop-on-limit and a client that answers every insert with a
\* rate-limit error, a run that has a slot to create ends with exit code 0
\* after exactly retry_limit + 1 insert attempts, all for that slot, and has
\* created nothing.
C5_RetryExhaustion ==
    (/\ config.stop_on_create_limit
     /\ youtube.insert_always_rate_limited
     /\ planned # <<>>
     /\ pc = "exited") =>
        /\ Cardinality(InsertCalls(run_no)) = config.rate_limit_retry_limit + 1
        /\ \A i, j \in InsertCalls(run_no) : events[i].slot = events[j].slot
        /\ InsertsOk(run_no) = {}
        /\ created_titles = <<>>
        /\ exit_code = Some(0)

\* ------------------------------------------------------------------ C6

\* C6: every insert of a run is for a date from today + start_offset_days to
\* today + min(max_days_ahead, 11); a run that reached the end of a window
\* with max_days_ahead > 11 inserted a broadcast for every slot of today + 11
\* the catalog did not hold, and none for a later day.
C6_WindowCapping ==
    LET first == today + config.start_offset_days
        last == today + (IF config.max_days_ahead < 11 THEN config.max_days_ahead ELSE 11)
    IN  /\ \A i \in InsertCalls(run_no) :
              /\ first <= events[i].body.scheduledStartTime.day
              /\ events[i].body.scheduledStartTime.day <= last
              /\ events[i].slot[1] = events[i].body.scheduledStartTime.day
        /\ (Logged("DONE", run_no) /\ config.max_days_ahead > 11) =>
              \A k \in 1..4 :
                  \/ SlotDef(<<today + 11, k>>).keyword = config.keyword_vela_21
                       /\ Weekday(today + 11) # 3
                  \/ \E i \in 1..Len(events) :
                        /\ IsEvent(i, "skip") /\ events[i].run = run_no
                        /\ events[i].slot = <<today + 11, k>>
                  \/ \E i \in InsertsOk(run_no) : events[i].slot = <<today + 11, k>>

\* a run with max_days_ahead above the cap completed and inserted a broadcast
\* for today + 11
C6_Witness ==
    /\ Logged("DONE", run_no)
    /\ config.max_days_ahead > 11
    /\ \E i \in InsertsOk(run_no) : events[i].body.scheduledStartTime.day = today + 11

\* ------------------------------------------------------------------ C9

\* C9: the templates of a run are those of the catalog as it was listed, they
\* do not change while the run appends what it creates to the cache, and
\* every insert of a keyword uses the template of that keyword.
C9_TemplateResolvedOnce ==
    /\ DOMAIN templates # {} =>
          \A kw \in DOMAIN templates :
              templates[kw] = find_template_by_keyword_in_items(InitialCache, kw)
    /\ \A i \in InsertCalls(run_no) :
          /\ events[i].template = templates[SlotDef(events[i].slot).keyword]
          /\ \A j \in InsertCalls(run_no) :
                events[j].slot[2] = events[i].slot[2] => events[j].template = events[i].template
          /\ (~IsNone(events[i].template) /\ Val(events[i].template).description # "") =>
                events[i].body.description = Val(events[i].template).description

\* two slots of one keyword were inserted with a template while the broadcast
\* of the first is in the cache
C9_Witness ==
    \E i, j \in InsertsOk(run_no) :
        /\ i < j
        /\ events[i].slot[2] = events[j].slot[2]
        /\ \E k \in 1..Len(CachedCreated) : CachedCreated[k].id = events[i].id
        /\ ~IsNone(events[j].template)

\* ------------------------------------------------------------------ C10

NoThumbnailToCopy(template) ==
    \/ IsNone(template)
    \/ IsNone(Val(template).thumbnail_url)
    \/ Val(Val(template).thumbnail_url) = ""

\* C10: a broadcast created for a slot whose keyword has no template, or a
\* template with no thumbnail URL, is never deleted, and once its slot is
\* over its title is in the created list and in no entry of the failed list.
C10_NoTemplateNoFailure ==
    \A i \in InsertsOk(run_no) :
        NoThumbnailToCopy(events[i].template) =>
            /\ \A k \in 1..Len(events) : ~(IsEvent(k, "delete") /\ events[k].id = events[i].id)
            /\ Slot # events[i].slot =>
                  /\ SlotTitle(events[i].slot) \in SeqToSet(created_titles)
                  /\ \A k \in 1..Len(failed) : failed[k].title # SlotTitle(events[i].slot)

\* ------------------------------------------------------------------ C7, C8

Matching(kw) == {i \in 1..Len(broadcasts) : Contains(kw, broadcasts[i].title)}
AiredMatching(kw) == {i \in Matching(kw) : broadcasts[i].actualEndTime.kind # "none"}
WithMetadata(kw) ==
    {i \in Matching(kw) :
        \/ broadcasts[i].description # ""
        \/ "boundStreamId" \in DOMAIN broadcasts[i].contentDetails
        \/ DOMAIN broadcasts[i].thumbnails # {}}

\* template t was built from the record at position i
BuiltFrom(t, i, from_emitted) ==
    /\ ~IsNone(t)
    /\ Val(t).source_id = broadcasts[i].id
    /\ Val(t).source_title = broadcasts[i].title
    /\ Val(t).description = broadcasts[i].description
    /\ Val(t).from_emitted = from_emitted

\* C7: when a record of the keyword is aired, the template is built from an
\* aired record of the keyword whose actualEndTime no other aired record of
\* the keyword exceeds, and is marked from_emitted, whatever scheduled records
\* there are.
C7_LatestAiredFirst ==
    pc = "resolved" =>
        \A kw \in DOMAIN templates :
            AiredMatching(kw) # {} =>
                \E i \in AiredMatching(kw) :
                    /\ BuiltFrom(templates[kw], i, TRUE)
                    /\ \A j \in AiredMatching(kw) :
                          InstantOf(broadcasts[j].actualEndTime)
                              <= InstantOf(broadcasts[i].actualEndTime)

\* the aired record won over a scheduled record with metadata and a later
\* start, and over an aired record with an earlier end
C7_Witness ==
    /\ pc = "resolved"
    /\ \E i \in AiredMatching(KW10) :
          /\ BuiltFrom(templates[KW10], i, TRUE)
          /\ \E j \in AiredMatching(KW10) :
                InstantOf(broadcasts[j].actualEndTime) < InstantOf(broadcasts[i].actualEndTime)
          /\ \E j \in WithMetadata(KW10) \ AiredMatching(KW10) :
                InstantOf(broadcasts[j].scheduledStartTime)
                    > InstantOf(broadcasts[i].scheduledStartTime)

\* C8: with no aired record of the keyword, the template is built from the
\* record with the latest scheduledStartTime among those of the keyword with
\* metadata, or among all of the keyword when none has metadata; there is no
\* template exactly when no title contains the keyword.
C8_ScheduledTiers ==
    pc = "resolved" =>
        \A kw \in DOMAIN templates :
            /\ IsNone(templates[kw]) <=> Matching(kw) = {}
            /\ (AiredMatching(kw) = {} /\ Matching(kw) # {}) =>
                  LET tier == IF WithMetadata(kw) # {} THEN WithMetadata(kw) ELSE Matching(kw)
                  IN  \E i \in tier :
                        /\ BuiltFrom(templates[kw], i, FALSE)
                        /\ \A j \in tier :
                              InstantOf(broadcasts[j].scheduledStartTime)
                                  <= InstantOf(broadcasts[i].scheduledStartTime)

\* in one catalog: a record with metadata won over a later one without, a
\* second keyword got its template from a record without metadata, and a
\* third keyword, in no title, got none
C8_Witness ==
    /\ pc = "resolved"
    /\ \E i \in WithMetadata(KW10) :
          /\ AiredMatching(KW10) = {}
          /\ BuiltFrom(templates[KW10], i, FALSE)
          /\ \E j \in Matching(KW10) \ WithMetadata(KW10) :
                InstantOf(broadcasts[j].scheduledStartTime)
                    > InstantOf(broadcasts[i].scheduledStartTime)
    /\ AiredMatching(KW12) = {} /\ WithMetadata(KW12) = {} /\ Matching(KW12) # {}
    /\ ~IsNone(templates[KW12])
    /\ IsNone(templates[KW20])

\* ------------------------------------------------------------------ C11

\* the first run ended, no call of the client failed in it, the four
\* definitions have their own keywords, and the catalog the run listed was empty
CleanRunOnEmptyCatalog ==
    /\ run_no = 1 /\ pc = "exited" /\ faults = 0
    /\ ~youtube.insert_always_rate_limited
    /\ config.rate_limit_retry_limit >= 0
    /\ config.keyword_misa_12 # config.keyword_misa_10
    /\ youtube.n_items = 0

\* C11: on an empty catalog, with start offset 1 and max-days 1, the run
\* returns 0 having created one broadcast for each slot of tomorrow (10:00,
\* 12:00, 20:00, and 21:00 if and only if tomorrow is Thursday), each with the
\* default description of its definition.
C11_EmptyCatalogScenario ==
    (/\ CleanRunOnEmptyCatalog
     /\ config.start_offset_days = 1 /\ config.max_days_ahead = 1) =>
        /\ exit_code = Some(0)
        /\ Len(created_titles) = (IF Weekday(today + 1) = 3 THEN 4 ELSE 3)
        /\ Len(LeftBehind) = Len(created_titles)
        /\ \A k \in 1..3 \cup (IF Weekday(today + 1) = 3 THEN {4} ELSE {}) :
              \E i \in InsertsOk(1) :
                  /\ events[i].id \notin deleted_ids
                  /\ events[i].body.title = SlotTitle(<<today + 1, k>>)
                  /\ InstantOf(events[i].body.scheduledStartTime) = SlotStart(<<today + 1, k>>)
                  /\ events[i].body.description = SlotDef(<<today + 1, k>>).default_description

\* ------------------------------------------------------------------ C12, C13

SlotCalls == {"insert", "list", "update", "bind", "delete"}

\* a quota/limit-class HttpError that the retry loop does not take, or the
\* exhaustion of the retries, raised by one of the calls
StopSignals(calls) ==
    {i \in RunEvents :
        \/ /\ IsEvent(i, "raise")
           /\ events[i].call \in calls
           /\ events[i].error.status # 0
           /\ Classifies(events[i].error)
           /\ _is_quota_or_limit_error(events[i].error)[1]
           /\ ~(events[i].call \in {"insert", "bind"}
                  /\ _is_rate_limit_http_error(events[i].error)[1])
        \/ IsEvent(i, "StopCreationLimit") /\ events[i].call \in calls}

\* nothing follows event i but the STOP line and the summary of the lists as
\* they are, and the run has returned
EndsRunAt(i) ==
    /\ Len(events) = i + 2
    /\ events[i + 1] = Log("STOP")
    /\ events[i + 2] = SummaryOf(planned, created_titles, existing_titles, failed)
    /\ pc \in {"returned", "exited"}
    /\ pc = "exited" => exit_code = Some(0)

\* C12: with stop-on-limit, a stop signal raised by the insert, the chat
\* verification or update, the state fetch, the bind or the delete of a slot
\* ends the run at once: the call is not repeated, STOP and the partial
\* summary are the last events, no call follows, the run returns 0.
C12_StopEndsRun ==
    config.stop_on_create_limit => \A i \in StopSignals(SlotCalls) : EndsRunAt(i)

\* a run stopped by a signal after it had created a broadcast
C12_Witness ==
    /\ config.stop_on_create_limit
    /\ pc = "exited" /\ exit_code = Some(0)
    /\ created_titles # <<>>
    /\ \E i \in StopSignals(SlotCalls) : events[i].slot[2] > 1

\* C12 as stated, for a quota/limit-class error of any call of the slot, the
\* thumbnail upload included
C12_AnyCall ==
    config.stop_on_create_limit =>
        \A i \in StopSignals(SlotCalls \cup {"thumbnail"}) : EndsRunAt(i)

\* C13: without stop-on-limit, a stop signal records the slot as failed and
\* the run goes on: it does not end by an exception.
C13_StopDisabledAbsorbed ==
    ~config.stop_on_create_limit =>
        \A i \in StopSignals(SlotCalls) :
            /\ pc # "raised"
            /\ pc = "exited" => exit_code = Some(0)
            /\ \E k \in 1..Len(failed) : failed[k].title = SlotTitle(events[i].slot)

\* ------------------------------------------------------------------ C14

\* an HttpError that is neither of the rate-limit nor of the quota/limit
\* class: the classifiers say so, or its content is one they cannot read
Unclassified(calls) ==
    {i \in RunEvents :
        /\ IsEvent(i, "raise")
        /\ events[i].call \in calls
        /\ events[i].error.status # 0
        /\ \/ ~Classifies(events[i].error)
           \/ /\ ~_is_rate_limit_http_error(events[i].error)[1]
              /\ ~_is_quota_or_limit_error(events[i].error)[1]}

\* the slot is the last entry of the failed list, ERROR and the summary are
\* the last events, the run has raised and the process exits with status 1
FatalAt(i) ==
    /\ Len(events) = i + 2
    /\ events[i + 1] = Log("ERROR")
    /\ events[i + 2] = SummaryOf(planned, created_titles, existing_titles, failed)
    /\ failed # <<>> /\ failed[Len(failed)].title = SlotTitle(events[i].slot)
    /\ pc \in {"raised", "exited"}
    /\ pc = "exited" => exit_code = Some(1)

ReturnedNormally ==
    \/ events[Len(events)] = Log("SKIP_RANGE")
    \/ /\ Len(events) > 1
       /\ events[Len(events)].op = "summary"
       /\ events[Len(events) - 1] \in {Log("DONE"), Log("STOP")}

\* C14: an unclassified HttpError raised by the insert, the chat verification
\* or update, the state fetch, the bind or the delete of a slot is fatal: the
\* slot is appended to the failed list, the summary is emitted, nothing
\* follows and the process exits with status 1; a run that returns exits
\* with status 0.
C14_UnclassifiedFatal ==
    /\ \A i \in Unclassified(SlotCalls) : FatalAt(i)
    /\ (pc = "exited" /\ ReturnedNormally) => exit_code = Some(0)

\* ------------------------------------------------------------------ C15, C16, C17

\* C15: a run that has ended, in whatever way, has emitted the summary once,
\* as its last event.
C15_SummaryOnEveryPath ==
    pc \in {"returned", "raised"} =>
        /\ events[Len(events)].op = "summary"
        /\ Cardinality({i \in RunEvents : IsEvent(i, "summary")}) = 1

\* C16: a full-list request that failed once with a 5xx does not end the run.
C16_ListRetriesOnce5xx ==
    (\E i \in RunEvents :
        IsEvent(i, "raise") /\ events[i].call = "list_all" /\ events[i].error.status >= 500) =>
            /\ pc # "raised"
            /\ pc = "exited" => exit_code = Some(0)

\* C17: with creation_mode = "studio_ui" no liveBroadcasts.insert is issued.
C17_StudioModeNoInsert ==
    config.creation_mode = "studio_ui" => InsertCalls(run_no) = {}

\* ------------------------------------------------------------------ C18

\* the rate-limit class: status 403 with one of the two reasons in the payload
RateLimitClass(error) ==
    /\ error.status = 403 /\ Classifies(error) /\ error.json /\ error.has_errors
    /\ error.reason \in {"userRequestsExceedRateLimit", "rateLimitExceeded"}

FailedInvocations == {i \in 1..Len(events) : IsEvent(i, "operation") /\ ~events[i].ok}

\* the error the invocation at event i raised
ErrorOf(i) == events[i + 1].error

\* C18: the executor repeats the operation only after a rate-limit failure:
\* a failure of any other kind ends it, the same error coming out with no
\* sleep and no further invocation; an invocation that is not the first
\* follows the sleep after a rate-limit failure.
C18_OnlyRateLimitRetried ==
    /\ \A i \in FailedInvocations :
          ~RateLimitClass(ErrorOf(i)) =>
              /\ Len(events) = i + 2
              /\ events[i + 2] = Propagated(ErrorOf(i))
              /\ pc = "retry_raised"
    /\ \A j \in 1..Len(events) :
          /\ IsEvent(j, "sleep") =>
                j - 2 \in FailedInvocations /\ RateLimitClass(ErrorOf(j - 2))
          /\ (IsEvent(j, "operation") /\ j > 1) =>
                IsEvent(j - 1, "sleep") /\ events[j].attempt = events[j - 3].attempt + 1
          /\ IsEvent(j, "propagated") => ~RateLimitClass(events[j].error)

\* ------------------------------------------------------------------ C19

\* C19: when every one of the retry_limit + 1 attempts failed by rate limit,
\* the executor raises StopCreationLimit with the reason of the last failure
\* as details, not the HttpError; an invocation that succeeds is the last
\* one and its result is returned.
C19_ExhaustionRaisesStop ==
    /\ (/\ pc # "retry"
        /\ config.rate_limit_retry_limit >= 0
        /\ Cardinality({i \in FailedInvocations : RateLimitClass(ErrorOf(i))})
              = config.rate_limit_retry_limit + 1) =>
            /\ pc = "retry_raised"
            /\ events[Len(events)].op = "StopCreationLimit"
            /\ events[Len(events)].details = <<events[Len(events) - 1].error.reason>>
            /\ \A j \in 1..Len(events) : ~IsEvent(j, "propagated")
    /\ \A i \in 1..Len(events) :
          (IsEvent(i, "operation") /\ events[i].ok) =>
              /\ Len(events) = i + 1
              /\ events[i + 1] = Returned("result")
              /\ pc = "retry_returned"

\* three attempts, the last failed with another reason than the first
C19_Witness ==
    /\ pc = "retry_raised"
    /\ config.rate_limit_retry_limit = 2
    /\ events[Len(events)].op = "StopCreationLimit"
    /\ events[Len(events)].details = <<"rateLimitExceeded">>
    /\ ErrorOf(1) = ErrRateLimit

\* ------------------------------------------------------------------ C20

\* d_k of the configuration
CappedDelay(k) ==
    LET doubled == config.rate_limit_retry_base_seconds * (2 ^ k)
    IN  IF doubled > config.rate_limit_retry_max_seconds
        THEN config.rate_limit_retry_max_seconds ELSE doubled

RetrySleeps == {j \in 1..Len(events) : IsEvent(j, "sleep") /\ events[j].why = "retry"}

\* C20: the sleep before retry k lasts between d_k and d_k + 0.5 s, with
\* d_k = min(max, base * 2^k), never above max and never below the d of the
\* sleep before; each failed attempt but the final one is followed by one
\* sleep, the final one by none.
C20_BackoffSchedule ==
    /\ \A j \in RetrySleeps :
          /\ events[j].k = events[j - 2].attempt
          /\ events[j].seconds >= CappedDelay(events[j].k)
          /\ events[j].seconds <= CappedDelay(events[j].k) + MaxJitter
          /\ CappedDelay(events[j].k) <= config.rate_limit_retry_max_seconds
          /\ \A h \in RetrySleeps : h < j => CappedDelay(events[h].k) <= CappedDelay(events[j].k)
    /\ \A i \in FailedInvocations :
          \/ /\ IsEvent(i + 2, "sleep")
             /\ Len(events) > i + 2 => IsEvent(i + 3, "operation")
          \/ /\ Len(events) = i + 2
             /\ pc = "retry_raised"
             /\ RetrySleeps \cap i..Len(events) = {}

\* the third sleep of a run is capped: base * 4 is above max
C20_Witness ==
    /\ Cardinality(RetrySleeps) = 3
    /\ config.rate_limit_retry_base_seconds * 4 > config.rate_limit_retry_max_seconds
    /\ config.rate_limit_retry_max_seconds > config.rate_limit_retry_base_seconds
    /\ \E j \in RetrySleeps : events[j].k = 2 /\ events[j].seconds = config.rate_limit_retry_max_seconds + MaxJitter

\* ------------------------------------------------------------------ C21

\* the second rule: not aired, of the slot's keyword, scheduled at the
\* instant of the slot
SameSlotRecord(item, slot) ==
    /\ item.actualEndTime.kind = "none"
    /\ Contains(SlotDef(slot).keyword, item.title)
    /\ InstantOf(item.scheduledStartTime) = SlotStart(slot)

SameTitle(item, slot) == NormalizeTitle(item.title) = NormalizeTitle(SlotTitle(slot))

\* the loop has left the slot behind
Passed(slot) == slot[1] < TargetDate \/ (slot[1] = TargetDate /\ slot[2] < def_idx)

SkipsOf(slot) == {i \in RunEvents : IsEvent(i, "skip") /\ events[i].slot = slot}

\* C21: a slot for which the listed catalog holds a record that is not
\* aired, has the slot's keyword in its title and is scheduled at the instant
\* of the slot gets no insert, and once the loop has passed it, it was
\* skipped and is in the existing list; every skip is caused by a cached
\* record of the same title or by such a record, never by one that is aired
\* or starts at another time.
C21_SameSlotSkipped ==
    /\ \A slot \in RunSlots :
          (\E k \in 1..Len(InitialCache) : SameSlotRecord(InitialCache[k], slot)) =>
              /\ \A i \in InsertCalls(run_no) : events[i].slot # slot
              /\ Passed(slot) =>
                    /\ SkipsOf(slot) # {}
                    /\ SlotTitle(slot) \in SeqToSet(existing_titles)
    /\ \A i \in RunEvents :
          IsEvent(i, "skip") =>
              \E k \in 1..Len(broadcasts) :
                  /\ broadcasts[k].id = events[i].id
                  /\ SameTitle(broadcasts[k], events[i].slot)
                       \/ SameSlotRecord(broadcasts[k], events[i].slot)

\* the 12:00 slot was skipped for a record of another title, while the
\* 10:00 slot, which an aired record of the same start holds, and the 20:00
\* slot, whose keyword has a record of another start, were inserted
C21_Witness ==
    LET first == StartDate(today, config)
    IN  /\ \E k \in 1..Len(InitialCache) :
              /\ SameSlotRecord(InitialCache[k], <<first, 2>>)
              /\ ~SameTitle(InitialCache[k], <<first, 2>>)
        /\ \A k \in 1..Len(InitialCache) : ~SameTitle(InitialCache[k], <<first, 2>>)
        /\ SkipsOf(<<first, 2>>) # {}
        /\ \E i \in InsertsOk(run_no) :
              /\ events[i].slot = <<first, 1>>
              /\ \E k \in 1..Len(InitialCache) :
                    /\ Aired(InitialCache[k])
                    /\ InstantOf(InitialCache[k].scheduledStartTime) = SlotStart(<<first, 1>>)
                    /\ Contains(KW10, InitialCache[k].title)
        /\ \E i \in InsertsOk(run_no) :
              /\ events[i].slot = <<first, 3>>
              /\ \E k \in 1..Len(InitialCache) :
                    /\ ~Aired(InitialCache[k])
                    /\ Contains(KW20, InitialCache[k].title)

\* ------------------------------------------------------------------ C22

\* event j exists and is the call op for the broadcast id, answered or failed
IsCallFor(j, op, id) == j <= Len(events) /\ IsEvent(j, op) /\ events[j].id = id

\* the chat flag the re-read at event j reports, the one of the insert
\* response at event i when the re-read carries none, off when neither has one
ReportedChat(i, j) ==
    IF "enableLiveChat" \in DOMAIN events[j].contentDetails
    THEN events[j].contentDetails["enableLiveChat"]
    ELSE IF "enableLiveChat" \in DOMAIN events[i].response_cd
         THEN events[i].response_cd["enableLiveChat"]
    ELSE "False"

UpdatesOf(id) == {j \in RunEvents : IsEvent(j, "update") /\ events[j].id = id}

\* C22: the event after a successful insert is the re-read of the created
\* broadcast. When it reports the chat on (by its own flag or, having none,
\* by the flag of the insert response) the next calls are one update whose
\* contentDetails is enableLiveChat = false alone and one confirming re-read;
\* a confirming re-read that still reports the chat on is followed by the
\* warning and then by the state re-read: the slot goes on, not failed.
\* When it reports the chat off no update is ever issued for the broadcast.
C22_ChatVerification ==
    \A i \in InsertsOk(run_no) :
        LET id == events[i].id IN
        /\ Len(events) > i => IsCallFor(i + 1, "list", id)
        /\ Cardinality(UpdatesOf(id)) <= 1
        /\ (Len(events) > i + 1 /\ events[i + 1].ok) =>
              IF ReportedChat(i, i + 1) = "True"
              THEN /\ IsCallFor(i + 2, "update", id)
                   /\ events[i + 2].ok =>
                         /\ events[i + 2].body.contentDetails = [enableLiveChat |-> "False"]
                         /\ Len(events) > i + 2 => IsCallFor(i + 3, "list", id)
                         /\ (Len(events) > i + 3 /\ events[i + 3].ok) =>
                               /\ events[i + 4] =
                                     [op |-> "log", run |-> run_no,
                                      tag |-> IF Get(events[i + 3].contentDetails,
                                                     "enableLiveChat", "False") = "True"
                                              THEN "WARN" ELSE "CHAT"]
                               /\ Len(events) > i + 4 => IsCallFor(i + 5, "list", id)
                               /\ Len(events) = i + 4 =>
                                     /\ pc = "fetch"
                                     /\ \A k \in 1..Len(failed) :
                                           failed[k].title # SlotTitle(events[i].slot)
              ELSE /\ UpdatesOf(id) = {}
                   /\ IsCallFor(i + 2, "list", id)
                   /\ "contentDetails" \notin DOMAIN events[i + 2]

\* a slot whose chat was still reported on after the update was completed
\* with the warning
C22_Witness ==
    \E i \in InsertsOk(run_no) :
        /\ Len(events) > i + 5
        /\ events[i + 2].op = "update" /\ events[i + 2].ok
        /\ events[i + 4] = Log("WARN")
        /\ SlotTitle(events[i].slot) \in SeqToSet(created_titles)
        /\ Slot # events[i].slot
        /\ failed = <<>>

\* ------------------------------------------------------------------ C23, C24

AllInsertCalls == {i \in 1..Len(events) : IsEvent(i, "insert")}

\* contentDetails of the broadcast the template of insert i was built from
TemplateContent(i) ==
    IF IsNone(events[i].template) THEN EmptyDict ELSE Val(events[i].template).content_details

\* C23: every insert body has the chat off, monetization on and the manual
\* cue points off; its other contentDetails keys are exactly the whitelisted
\* keys of the template, with the template's values; boundStreamId is not
\* among them.
C23_PolicyOverrides ==
    \A i \in AllInsertCalls :
        LET body == events[i].body
            copied == (DOMAIN TemplateContent(i) \cap ContentDetailsAllowed) \ {"enableLiveChat"}
        IN  /\ body.contentDetails["enableLiveChat"] = "False"
            /\ body.monetizationDetails["enableMonetization"] = "True"
            /\ body.monetizationDetails["cuepointSchedule"] = "enabled=False"
            /\ DOMAIN body.contentDetails = copied \cup {"enableLiveChat"}
            /\ \A key \in copied : body.contentDetails[key] = TemplateContent(i)[key]
            /\ "boundStreamId" \notin DOMAIN body.contentDetails
            /\ {"enableLowLatency", "enableDvr", "enableLiveChatReplay", "enableLiveChatSummary"}
                  \cap DOMAIN TemplateContent(i) \subseteq copied

\* a broadcast was inserted from a template with the chat on, a bound stream
\* and cue points on, whose latency, DVR and chat replay flags were copied
C23_Witness ==
    \E i \in InsertsOk(run_no) :
        /\ Get(TemplateContent(i), "enableLiveChat", "") = "True"
        /\ "boundStreamId" \in DOMAIN TemplateContent(i)
        /\ Get(Val(events[i].template).monetization_details, "cuepointSchedule", "") = "enabled=True"
        /\ events[i].body.contentDetails["enableDvr"] = "False"
        /\ events[i].body.contentDetails["enableLowLatency"] = "True"
        /\ events[i].body.contentDetails["enableLiveChatReplay"] = "True"

\* C24: monetizationDetails.adsMonetizationStatus of every insert body is "on".
C24_AdsMonetizationOn ==
    \A i \in AllInsertCalls :
        Get(events[i].body.monetizationDetails, "adsMonetizationStatus", "") = "on"

\* ------------------------------------------------------------------ C25

\* the listed records that are aired and bound to a stream
AiredWithStream ==
    {k \in 1..Len(InitialCache) :
        /\ InitialCache[k].actualEndTime.kind # "none"
        /\ Get(InitialCache[k].contentDetails, "boundStreamId", "") # ""}

\* the definitions whose template has a bound stream
StreamDefinitions ==
    {d \in 1..4 :
        LET t == templates[Definitions(config)[d].keyword]
        IN  t # <<>> /\ t[1].bound_stream_id \notin {<<>>, <<"">>}}

BindCalls == {j \in RunEvents : IsEvent(j, "bind")}

\* C25: from the resolution of the templates to the end of the run the
\* shared stream id is the stream of an aired listed record whose
\* actualEndTime no other aired record with a stream exceeds, when there is
\* one; otherwise the bound stream of the first definition whose template
\* has one; otherwise none. Every bind of the run uses it and without it no
\* bind is issued.
C25_SharedStream ==
    /\ DOMAIN templates # {} =>
          IF AiredWithStream # {}
          THEN \E k \in AiredWithStream :
                  /\ shared_stream_id = <<InitialCache[k].contentDetails["boundStreamId"]>>
                  /\ \A j \in AiredWithStream :
                        InstantOf(InitialCache[j].actualEndTime)
                          <= InstantOf(InitialCache[k].actualEndTime)
          ELSE IF StreamDefinitions # {}
               THEN \E d \in StreamDefinitions :
                      /\ \A e \in StreamDefinitions : d <= e
                      /\ shared_stream_id = templates[Definitions(config)[d].keyword][1].bound_stream_id
          ELSE shared_stream_id = <<>>
    /\ \A j \in BindCalls : shared_stream_id = <<events[j].stream>>
    /\ shared_stream_id = <<>> => BindCalls = {}

\* a broadcast was bound to the stream of the aired record that ended last,
\* which is neither the first nor the last aired record of the catalog, while
\* the other aired records and the template of the first definition carry
\* other streams
C25_Witness ==
    /\ DOMAIN templates # {}
    /\ Cardinality(AiredWithStream) > 2
    /\ \E j \in BindCalls : events[j].ok /\ shared_stream_id = <<events[j].stream>>
    /\ \E k \in AiredWithStream :
          /\ shared_stream_id = <<InitialCache[k].contentDetails["boundStreamId"]>>
          /\ \A j \in AiredWithStream \ {k} :
                /\ InstantOf(InitialCache[j].actualEndTime) < InstantOf(InitialCache[k].actualEndTime)
                /\ shared_stream_id # <<InitialCache[j].contentDetails["boundStreamId"]>>
          /\ \E j \in AiredWithStream : j < k
          /\ \E j \in AiredWithStream : j > k
    /\ \E d \in StreamDefinitions :
          /\ \A e \in StreamDefinitions : d <= e
          /\ shared_stream_id # templates[Definitions(config)[d].keyword][1].bound_stream_id

\* ------------------------------------------------------------------ C26

\* the slots of the window: 10:00, 12:00, 20:00 every day, 21:00 on Thursdays
PlannerSlots ==
    LET first == today + config.start_offset_days
        last == today + (IF config.max_days_ahead < 11 THEN config.max_days_ahead ELSE 11)
    IN  {slot \in (first..last) \X (1..4) : slot[2] = 4 => Weekday(slot[1]) = 3}

Before(s, t) == s[1] < t[1] \/ (s[1] = t[1] /\ s[2] < t[2])

\* the events by which a slot is taken up: its skip or its insert
SlotEvents == {i \in RunEvents : IsEvent(i, "skip") \/ IsEvent(i, "insert")}

\* C26: the slots a run takes up are slots of the window, each after all the
\* slots of the window before it and none after a later one, with the hours
\* 10, 12, 20 and 21 in that order; a run that reaches the end of the loop
\* has taken up every slot of the window.
C26_SlotPlanning ==
    /\ \A i \in SlotEvents :
          /\ events[i].slot \in PlannerSlots
          /\ \A t \in PlannerSlots :
                Before(t, events[i].slot) =>
                    \E j \in SlotEvents : j < i /\ events[j].slot = t
          /\ \A j \in SlotEvents : j < i => ~Before(events[i].slot, events[j].slot)
          /\ IsEvent(i, "insert") =>
                /\ events[i].body.scheduledStartTime.day = events[i].slot[1]
                /\ events[i].body.scheduledStartTime.hour = <<10, 12, 20, 21>>[events[i].slot[2]]
    /\ Logged("DONE", run_no) =>
          \A t \in PlannerSlots : \E j \in SlotEvents : events[j].slot = t

\* a run completed a window of two days, a Wednesday with three slots and a
\* Thursday with four
C26_Witness ==
    /\ Logged("DONE", run_no)
    /\ Cardinality(PlannerSlots) = 7
    /\ Cardinality({events[i].slot : i \in SlotEvents}) = 7
    /\ Len(broadcasts) > 0

\* ------------------------------------------------------------------ C27

StartAfterEnd ==
    today + config.start_offset_days
      > today + (IF config.max_days_ahead < 11 THEN config.max_days_ahead ELSE 11)

RemoteWrites ==
    {i \in RunEvents : events[i].op \in {"insert", "update", "bind", "delete", "thumbnail"}}

ListFailed == \E i \in RunEvents : IsEvent(i, "raise") /\ events[i].call = "list_all"

\* C27: when today + offset is after today + min(max_days_ahead, 11) the
\* run takes up no slot and issues no insert, update, bind, delete or
\* thumbnail set; once the catalog has been read it returns, and the process
\* exits with status 0.
C27_EmptyRange ==
    StartAfterEnd =>
        /\ RemoteWrites = {}
        /\ SlotEvents = {}
        /\ planned = <<>> /\ existing_titles = <<>> /\ created_titles = <<>> /\ failed = <<>>
        /\ pc \in {"start", "returned", "raised", "exited"}
        /\ pc = "raised" => ListFailed
        /\ (pc = "exited" /\ ~ListFailed) => exit_code = Some(0)

\* a run over a catalog with broadcasts found the range empty and exited
C27_Witness ==
    /\ StartAfterEnd
    /\ pc = "exited" /\ exit_code = Some(0)
    /\ Len(remote) > 0
    /\ \E i \in RunEvents : IsEvent(i, "list_all") /\ events[i].ok

\* ------------------------------------------------------------------ C28

\* C28: the description of every insert body is the description of the
\* keyword's template when there is a template and its description is not
\* empty, and otherwise the default of the definition: the mass default for
\* the 10:00, 12:00 and 20:00 slots, the vigil default for the 21:00 slot.
C28_DescriptionSelection ==
    \A i \in AllInsertCalls :
        LET t == events[i].template
        IN  events[i].body.description =
                IF t # <<>> /\ t[1].description # "" THEN t[1].description
                ELSE IF events[i].slot[2] = 4 THEN DEFAULT_VELA_DESCRIPTION
                ELSE DEFAULT_MISA_DESCRIPTION

\* one run inserted a broadcast with its template's description, one with
\* the mass default because its template has none, and the vigil with the
\* vigil default
C28_Witness ==
    \E i, j, k \in InsertsOk(run_no) :
        /\ events[i].template # <<>>
        /\ events[i].body.description = events[i].template[1].description
        /\ events[i].body.description \notin {"", DEFAULT_MISA_DESCRIPTION}
        /\ events[j].template # <<>>
        /\ events[j].template[1].description = ""
        /\ events[j].body.description = DEFAULT_MISA_DESCRIPTION
        /\ events[k].slot[2] = 4
        /\ events[k].template = <<>>
        /\ events[k].body.description = DEFAULT_VELA_DESCRIPTION

\* ------------------------------------------------------------------ C29

\* the calls and skips of the run, each of a slot
SlotOps ==
    {i \in RunEvents :
        events[i].op \in {"skip", "insert", "list", "update", "thumbnail", "delete", "bind"}}

\* the place of a call in the pipeline of its slot
Rank(op) ==
    CASE op = "skip" -> 0
      [] op = "insert" -> 1
      [] op \in {"list", "update"} -> 2
      [] op = "thumbnail" -> 3
      [] op = "delete" -> 4
      [] op = "bind" -> 5

Pauses == {j \in RunEvents : IsEvent(j, "sleep") /\ events[j].why = "pause"}

\* the last call before event j
LastOpBefore(j) == CHOOSE i \in SlotOps : i < j /\ \A k \in SlotOps : k < j => k <= i

OpsOf(slot, op) == {i \in SlotOps : events[i].slot = slot /\ events[i].op = op}

\* C29: the calls of a run come slot after slot in planner order, and within
\* a slot in the order insert, chat reads and update, state re-read,
\* thumbnail set, then delete or bind; the state re-read is the call before
\* the CREATED line. A pacing sleep follows the last call of a slot that was
\* inserted and not deleted, one per slot; a slot whose broadcast was deleted
\* has no bind and no pacing sleep, and a slot that was created and left
\* without deletion or error has its pacing sleep.
C29_OperationOrder ==
    /\ \A i, j \in SlotOps :
          i < j =>
              /\ ~Before(events[j].slot, events[i].slot)
              /\ events[i].slot = events[j].slot => Rank(events[i].op) <= Rank(events[j].op)
    /\ \A i \in RunEvents :
          (IsEvent(i, "log") /\ events[i].tag = "CREATED") =>
              /\ IsEvent(i - 1, "list") /\ events[i - 1].ok
              /\ OpsOf(events[i - 1].slot, "list") \cup OpsOf(events[i - 1].slot, "update")
                    \subseteq 1..(i - 1)
    /\ \A j \in Pauses :
          LET slot == events[LastOpBefore(j)].slot
          IN  /\ events[LastOpBefore(j)].op \in {"list", "thumbnail", "bind"}
              /\ events[LastOpBefore(j)].ok
              /\ \E i \in OpsOf(slot, "insert") : events[i].ok
              /\ OpsOf(slot, "delete") = {}
              /\ \A k \in Pauses : (k < j /\ LastOpBefore(j) < k) => k = j
    /\ \A d \in SlotOps :
          IsEvent(d, "delete") => OpsOf(events[d].slot, "bind") = {}
    /\ \A i \in InsertsOk(run_no) :
          (/\ Slot # events[i].slot
           /\ OpsOf(events[i].slot, "delete") = {}
           /\ \A k \in RunEvents : IsEvent(k, "raise") => events[k].slot # events[i].slot) =>
              \E j \in Pauses : events[LastOpBefore(j)].slot = events[i].slot

\* a run created a broadcast through insert, chat update, state re-read,
\* thumbnail set, bind and pause, and deleted the broadcast of another slot
C29_Witness ==
    \E j \in Pauses :
        LET slot == events[LastOpBefore(j)].slot
        IN  /\ events[LastOpBefore(j)].op = "bind"
            /\ \E t \in OpsOf(slot, "thumbnail") : events[t].ok
            /\ \E d \in SlotOps : IsEvent(d, "delete") /\ events[d].ok /\ events[d].slot # slot

\* ------------------------------------------------------------------ C30

DeletedIds == {events[d].id : d \in {k \in RunEvents : IsEvent(k, "delete")}}

\* the cache of the state is kept as it is by the step, at most one record
\* being added at its end
CacheKept ==
    /\ Len(broadcasts') >= Len(broadcasts)
    /\ SubSeq(broadcasts', 1, Len(broadcasts)) = broadcasts
    /\ pc # "start" => Len(broadcasts') <= Len(broadcasts) + 1

\* C30: within a run every step keeps the cache as a prefix of the next
\* cache and adds at most one record; the cache is the listed catalog
\* followed by one record, the created one, for every broadcast of the run
\* that was created and passed the thumbnail validation, in the order of
\* creation, and by nothing else; no deleted broadcast is in it.
C30_CacheAppendOnly ==
    /\ [](/\ broadcasts = InitialCache \o CachedCreated
          /\ \A i \in InsertsOk(run_no) :
                Cardinality({k \in 1..Len(CachedCreated) : CachedCreated[k].id = events[i].id})
                    = IF PassedValidation(i) THEN 1 ELSE 0
          /\ \A k \in 1..Len(CachedCreated) : CachedCreated[k].id \in CreatedIds
          /\ \A k, l \in 1..Len(CachedCreated) :
                k < l => CachedCreated[k].id < CachedCreated[l].id
          /\ \A k \in 1..Len(CachedCreated) : CachedCreated[k].id \notin DeletedIds)
    /\ [][run_no' = run_no => CacheKept]_vars

\* a run that listed a catalog holds two created broadcasts in its cache
\* after it deleted the broadcast of another slot
C30_Witness ==
    /\ Len(InitialCache) > 0
    /\ Len(CachedCreated) > 1
    /\ DeletedIds # {}

\* ------------------------------------------------------------------ C31

\* the catalog listings of the run
CatalogListings == {i \in RunEvents : IsEvent(i, "list_all")}

\* the list requests by id of the run
ListsById == {i \in RunEvents : IsEvent(i, "list")}

\* the last successful insert before event i
LastInsertBefore(i) ==
    CHOOSE k \in InsertsOk(run_no) : k < i /\ \A l \in InsertsOk(run_no) : l < i => l <= k

\* the state re-reads of the run that returned the record of the broadcast
StateReads ==
    {i \in ListsById : events[i].ok /\ "contentDetails" \notin DOMAIN events[i]}

\* the slots skipped on a record that a list request by id returned
SkippedOnListResult ==
    {s \in RunEvents :
        /\ IsEvent(s, "skip")
        /\ SkippedOnCreated(s)
        /\ \E i \in StateReads :
              /\ i < s
              /\ events[i].id = Val(SkipRecord(s)).id
              /\ events[i].slot # events[s].slot}

\* the catalog is listed at most once in a run, before every other call and
\* skip, and every list request by id names the broadcast of the last insert,
\* which is of the same slot
ListedOnceThenById ==
    /\ Cardinality(CatalogListings) <= 1
    /\ \A i \in CatalogListings : \A j \in SlotOps : i < j
    /\ \A i \in ListsById :
          /\ \E k \in InsertsOk(run_no) : k < i
          /\ events[i].id = events[LastInsertBefore(i)].id
          /\ events[i].slot = events[LastInsertBefore(i)].slot

\* C31 as stated: the catalog is listed once, every later list request
\* carries the id of the broadcast just created, and no slot is skipped on a
\* record that such a request returned.
C31_ListResultNeverDedupes ==
    /\ ListedOnceThenById
    /\ SkippedOnListResult = {}

\* C31: the catalog is listed once, before the first slot, and every later
\* list request carries the id of the broadcast just created; the records of
\* the cache after the listed ones are the records of broadcasts created in
\* the run, one record for a broadcast, and a slot skipped on a record that a list request returned is
\* skipped on the record of a broadcast created earlier in the same run.
C31_ListedOnce ==
    /\ ListedOnceThenById
    /\ SubSeq(broadcasts, 1, Len(InitialCache)) = InitialCache
    /\ \A k \in 1..Len(CachedCreated) :
          /\ CachedCreated[k].id \in CreatedIds
          /\ \A l \in 1..Len(CachedCreated) : CachedCreated[l].id = CachedCreated[k].id => l = k
    /\ \A s \in SkippedOnListResult :
          \E k \in 1..Len(CachedCreated) :
              /\ CachedCreated[k] = Val(SkipRecord(s))
              /\ CachedCreated[k].id = events[s].id
              /\ MatchesSlot(CachedCreated[k], events[s].slot)
              /\ \E j \in InsertsOk(run_no) : j < s /\ events[j].id = events[s].id

\* the re-read record of a created broadcast made a later slot of the run
\* be skipped
C31_Witness ==
    /\ CatalogListings # {}
    /\ SkippedOnListResult # {}

\* ------------------------------------------------------------------ C32

\* the page requests issued so far that were answered
PageRequests == {i \in 1..Len(events) : IsEvent(i, "page") /\ events[i].ok}

\* the pages up to the first one without a next token
RECURSIVE PagesRead(_)
PagesRead(k) ==
    IF k = Len(pages) \/ IsNone(pages[k].nextPageToken) \/ pages[k].nextPageToken = Some("")
    THEN k ELSE PagesRead(k + 1)

\* the items of pages 1..k in page order
RECURSIVE ItemsUpTo(_)
ItemsUpTo(k) == IF k = 0 THEN <<>> ELSE ItemsUpTo(k - 1) \o pages[k].items

\* the k-th answered request
NthRequest(k) ==
    CHOOSE i \in PageRequests : Cardinality({j \in PageRequests : j <= i}) = k

PagingEnded == pc \in {"paged", "page_raised"}

\* C32: the first request carries no token and the k-th the nextPageToken of
\* response k-1; what was yielded is the items of the pages requested, each
\* once and in page order; the iteration ends right after the first response
\* without a next token or with an empty one, having requested every page up
\* to that one and none after it; and every iteration over a catalog of
\* finitely many pages ends.
C32_Pagination ==
    /\ [](/\ \A k \in 1..Cardinality(PageRequests) :
                events[NthRequest(k)].pageToken =
                    IF k = 1 THEN None ELSE pages[k - 1].nextPageToken
          /\ Cardinality(PageRequests) <= PagesRead(1)
          /\ broadcasts = ItemsUpTo(Cardinality(PageRequests))
          /\ \A i, j \in 1..Len(broadcasts) : broadcasts[i] = broadcasts[j] => i = j
          /\ pc = "paged" <=> Cardinality(PageRequests) = PagesRead(1))
    /\ <>PagingEnded

\* an iteration ended after three pages, the second of them empty, or after
\* the first of three pages because its nextPageToken was the empty string
C32_Witness ==
    /\ pc = "paged"
    /\ Len(pages) = MaxPages
    /\ \/ Cardinality(PageRequests) = MaxPages /\ pages[2].items = <<>> /\ Len(broadcasts) > 2
       \/ Cardinality(PageRequests) = 1 /\ pages[1].nextPageToken = Some("")

\* ------------------------------------------------------------------ C33

\* the titles of the entries of a failed list
FailedTitles(f) == {f[i].title : i \in 1..Len(f)}

\* the summaries emitted in the run
Summaries == {i \in RunEvents : IsEvent(i, "summary")}

\* C33: at every point of a run no title is in the created list and, with a
\* failure suffix, in the failed list, and no summary emitted reports a title
\* as created and as failed.
C33_CreatedNotFailed ==
    /\ SeqToSet(created_titles) \cap FailedTitles(failed) = {}
    /\ \A i \in Summaries :
          SeqToSet(events[i].created) \cap FailedTitles(events[i].failed) = {}

\* ------------------------------------------------------------------ C34

\* the titles of the broadcasts inserted in the run and not deleted by it
LiveTitles ==
    {events[i].body.title : i \in {k \in InsertsOk(run_no) : events[k].id \notin DeletedIds}}

\* C34: when a run has ended, the titles of its created list are those of
\* the broadcasts it inserted and did not delete, and no such broadcast has
\* its title in the failed list.
C34_ReportFaithful ==
    Terminated =>
        /\ SeqToSet(created_titles) = LiveTitles
        /\ LiveTitles \cap FailedTitles(failed) = {}

\* ------------------------------------------------------------------ C35

\* how many times title t is planned, created, failed
TimesPlanned(t) == Cardinality({i \in 1..Len(planned) : planned[i] = t})
TimesCreated(t) == Cardinality({i \in 1..Len(created_titles) : created_titles[i] = t})
TimesFailed(t) == Cardinality({i \in 1..Len(failed) : failed[i].title = t})

\* C35: a run that completed normally has every planned title as many
\* times in the created and the failed list together as it was planned, so
\* |planned| = |created| + |failed|; a run that stopped or aborted has at most
\* one planned title missing from both, once.
C35_Accounting ==
    /\ Logged("DONE", run_no) =>
          /\ Len(planned) = Len(created_titles) + Len(failed)
          /\ \A t \in SeqToSet(planned) :
                TimesPlanned(t) = TimesCreated(t) + TimesFailed(t)
    /\ (Terminated /\ ~Logged("DONE", run_no)) =>
          \A t \in SeqToSet(planned) :
              /\ TimesPlanned(t) - (TimesCreated(t) + TimesFailed(t)) <= 1
              /\ \A u \in SeqToSet(planned) :
                    (TimesPlanned(t) > TimesCreated(t) + TimesFailed(t)
                     /\ TimesPlanned(u) > TimesCreated(u) + TimesFailed(u)) => t = u

\* ------------------------------------------------------------------ C36

\* the invocations of the operation by the executor
Invocations == {i \in 1..Len(events) : IsEvent(i, "operation")}

\* C36: for every retry_limit, negative ones included, the executor ends
\* only after it invoked the operation at least once, by returning the
\* result of the operation or by raising, and it never invokes the operation
\* more than max(retry_limit, 0) + 1 times.
C36_InvokesAtLeastOnce ==
    /\ Cardinality(Invocations) <=
          (IF config.rate_limit_retry_limit > 0 THEN config.rate_limit_retry_limit ELSE 0) + 1
    /\ pc \in {"retry_returned", "retry_raised"} => Invocations # {}
    /\ pc = "retry_returned" => events[Len(events)] = Returned("result")

\* ------------------------------------------------------------------ C37

\* HttpErrors of every status, payload and reason the classifiers tell apart
ErrorPool ==
    {HttpError(status, json, has_errors, reason, emessage, <<>>) :
        status \in {400, 403, 429, 503}, json \in BOOLEAN, has_errors \in BOOLEAN,
        reason \in {"None", "userRequestsExceedRateLimit", "rateLimitExceeded",
                    "userRateLimitExceeded", "quotaExceeded", "forbidden", "SERVICE_UNAVAILABLE"},
        emessage \in {<<>>, <<"Rate", " ", "Limit", " ", "Exceeded">>, <<"Quota", " ", "exceeded">>,
                      <<"Backend", " ", "Error">>}}
        \cup {HttpErrorNotUtf8(status) : status \in {400, 403, 429, 503}}
        \cup {HttpErrorNotObject(status) : status \in {400, 403, 429, 503}}

\* the calls of a slot made outside the retrying executor whose HttpError
\* reaches the loop, and their rate-limit failures in the run
UnwrappedCalls == {"list", "update", "delete"}
UnwrappedRateLimits ==
    {i \in RunEvents :
        /\ IsEvent(i, "raise")
        /\ events[i].call \in UnwrappedCalls
        /\ Classifies(events[i].error)
        /\ _is_rate_limit_http_error(events[i].error)[1]}

\* C37: every error the executor classifies as rate limit is classified as
\* quota or limit by the loop; with stop-on-limit enabled, a rate-limit error
\* of a verification read, a chat update, a state re-read or a delete is
\* followed by the STOP line and the summary and nothing else, the run
\* returns and exits with 0.
C37_RateLimitIsLimit ==
    /\ \A error \in ErrorPool \cup OperationErrors \cup RunErrors :
          (Classifies(error) /\ _is_rate_limit_http_error(error)[1]) =>
              _is_quota_or_limit_error(error)[1]
    /\ config.stop_on_create_limit =>
          \A i \in UnwrappedRateLimits :
              /\ Len(events) = i + 2
              /\ events[i + 1] = Log("STOP")
              /\ IsEvent(i + 2, "summary")
              /\ pc \in {"returned", "exited"}
              /\ pc = "exited" => exit_code = Some(0)

\* a run exited with 0 after the delete of a rolled-back broadcast, or the
\* chat update, was answered with a rate-limit error
C37_Witness ==
    /\ config.stop_on_create_limit
    /\ pc = "exited"
    /\ \E i \in UnwrappedRateLimits : events[i].call \in {"delete", "update"}

\* ------------------------------------------------------------------ C38

\* the skips of the run on a record that is aired or starts at another
\* instant than the slot
SkipsOnAiredOrElsewhere ==
    {i \in RunEvents :
        /\ IsEvent(i, "skip")
        /\ ~IsNone(SkipRecord(i))
        /\ Aired(Val(SkipRecord(i)))
             \/ InstantOf(Val(SkipRecord(i)).scheduledStartTime) # SlotStart(events[i].slot)}

\* C38: a slot whose normalized title is the normalized title of a record of
\* the listed catalog gets no insert and is skipped as existing, whether the
\* record is aired or not and whatever its scheduled start; a skip on a
\* record that is aired or starts at another instant is a skip on a record
\* of the slot's title; every skip names the record the existence check finds
\* in the cache.
C38_TitleRuleIgnoresAiring ==
    /\ \A slot \in RunSlots :
          (\E k \in 1..Len(InitialCache) : SameTitle(InitialCache[k], slot)) =>
              /\ \A i \in InsertCalls(run_no) : events[i].slot # slot
              /\ Passed(slot) =>
                    /\ SkipsOf(slot) # {}
                    /\ SlotTitle(slot) \in SeqToSet(existing_titles)
    /\ \A i \in RunEvents :
          IsEvent(i, "skip") =>
              /\ ~IsNone(SkipRecord(i))
              /\ Val(SkipRecord(i)).id = events[i].id
    /\ \A i \in SkipsOnAiredOrElsewhere : SameTitle(Val(SkipRecord(i)), events[i].slot)

\* a slot was skipped on an aired record of its title that was scheduled at
\* another instant
C38_Witness ==
    \E i \in SkipsOnAiredOrElsewhere :
        \E k \in 1..Len(InitialCache) :
            /\ InitialCache[k] = Val(SkipRecord(i))
            /\ Aired(InitialCache[k])
            /\ InstantOf(InitialCache[k].scheduledStartTime) # SlotStart(events[i].slot)
            /\ InitialCache[k].title # SlotTitle(events[i].slot)

\* ------------------------------------------------------------------ C39

\* the four prefixes differ after normalization
DistinctPrefixes ==
    \A a, b \in 1..Len(Definitions(config)) :
        NormalizeTitle(Definitions(config)[a].prefix) = NormalizeTitle(Definitions(config)[b].prefix)
            => a = b

\* the skips of the run on a broadcast the run created
SkipsOnCreated == {i \in RunEvents : IsEvent(i, "skip") /\ SkippedOnCreated(i)}

\* C39: with four prefixes that differ after normalization, two different
\* slots of the window have different normalized titles and different pairs
\* of keyword and scheduled start, no broadcast created in the run matches
\* another slot of the window, and no slot of the run is skipped on a
\* broadcast the run created.
C39_DistinctSlotsDistinctTitles ==
    DistinctPrefixes =>
        /\ \A s, t \in PlannerSlots :
              s # t =>
                  /\ NormalizeTitle(SlotTitle(s)) # NormalizeTitle(SlotTitle(t))
                  /\ <<SlotDef(s).keyword, SlotStart(s)>> # <<SlotDef(t).keyword, SlotStart(t)>>
        /\ \A i \in InsertsOk(run_no) :
              \A k \in 1..Len(CachedCreated) :
                  CachedCreated[k].id = events[i].id =>
                      \A t \in PlannerSlots :
                          MatchesSlot(CachedCreated[k], t) => t = events[i].slot
        /\ SkipsOnCreated = {}

\* a run with distinct prefixes holds in its cache a broadcast it created
\* for the first day of a window of two days and has taken up the same hour
\* of the second day with an insert
C39_Witness ==
    /\ DistinctPrefixes
    /\ \E k \in 1..Len(CachedCreated) :
          \E i, j \in InsertsOk(run_no) :
              /\ events[i].id = CachedCreated[k].id
              /\ events[j].slot[1] = events[i].slot[1] + 1
              /\ events[j].slot[2] = events[i].slot[2]

\* ------------------------------------------------------------------ C40

\* C40: a browser-automation run that listed the catalog over a window that
\* is not empty and has ended took up the first slot of the window, as
\* existing or as planned; when it ended by an error, the slot is recorded
\* as failed and the summary was emitted before the error left the run.
C40_StudioRun ==
    (/\ pc \in {"returned", "raised"}
     /\ ~StartAfterEnd
     /\ ~ListFailed) =>
        /\ Len(planned) + Len(existing_titles) >= 1
        /\ pc = "raised" =>
              /\ failed # <<>>
              /\ \E i \in RunEvents : IsEvent(i, "summary")

====
